---- MODULE Spec2Model ----
(***************************************************************************)
(* NutriTrack: the AI response pipeline (services/geminiService.ts) and    *)
(* the daily nutrition ledger (hooks/useStorage.ts).                       *)
(*                                                                         *)
(* Six specifications share this module:                                   *)
(*   SpecParsed  - handleParsedResponse applied to bounded decoded values  *)
(*   SpecParse   - parseAIResponse applied to bounded response texts       *)
(*   SpecAnalyze - analyzeFood: credential check, model/attempt loop       *)
(*   SpecLedger  - useDailyNutrition: load / save / addMeal / updateMeal / *)
(*                 deleteMeal / addWater over persisted day entries        *)
(*   SpecLoads   - useDailyNutrition.load and useWeekData.load over what   *)
(*                 the device already holds                                *)
(*   SpecApp     - the screen: analyzeFoodImage, manual entry, edit and    *)
(*                 delete over useDailyNutrition                           *)
(***************************************************************************)
EXTENDS Integers, Sequences, FiniteSets, TLC

(***************************************************************************)
(* JavaScript values.                                                      *)
(* A primitive is [t, n, s]: t the kind, n the numeric payload in tenths   *)
(* (a boolean keeps 0/1 there), s the text as a sequence of characters.    *)
(* A multi-letter chunk such as "kcal" stands for that run of letters; a   *)
(* digit, '.', '-' or a blank is always a chunk of its own.                *)
(***************************************************************************)
JUndef == [t |-> "undefined", n |-> 0, s |-> <<>>]
JNull == [t |-> "null", n |-> 0, s |-> <<>>]
JTrue == [t |-> "boolean", n |-> 1, s |-> <<>>]
JFalse == [t |-> "boolean", n |-> 0, s |-> <<>>]
JArray == [t |-> "array", n |-> 0, s |-> <<>>]
JInfinity == [t |-> "infinity", n |-> 0, s |-> <<>>]

JNum(tenths) == [t |-> "number", n |-> tenths, s |-> <<>>]

JStr(chars) == [t |-> "string", n |-> 0, s |-> chars]

\* typeof v === 'string'
IsString(v) == v.t = "string"

\* typeof v === 'number' && Number.isFinite(v)
IsFiniteNumber(v) == v.t = "number"

\* JavaScript truthiness, as used by `!x`, `x || y` and `a ? b : c`
Truthy(v) ==
    CASE v.t = "undefined" -> FALSE
      [] v.t = "null" -> FALSE
      [] v.t = "boolean" -> v.n = 1
      [] v.t = "number" -> v.n # 0
      [] v.t = "string" -> Len(v.s) > 0
      [] OTHER -> TRUE

IsSpace(c) == c \in {" ", "\n"}

RECURSIVE TrimLeft(_)
TrimLeft(s) ==
    IF s = <<>> THEN <<>>
    ELSE IF IsSpace(Head(s)) THEN TrimLeft(Tail(s)) ELSE s

RECURSIVE TrimRight(_)
TrimRight(s) ==
    IF s = <<>> THEN <<>>
    ELSE IF IsSpace(s[Len(s)]) THEN TrimRight(SubSeq(s, 1, Len(s) - 1)) ELSE s

\* String.prototype.trim
Trim(s) == TrimRight(TrimLeft(s))

Digits == {"0", "1", "2", "3", "4", "5", "6", "7", "8", "9"}

DigitVal(c) ==
    CASE c = "0" -> 0 [] c = "1" -> 1 [] c = "2" -> 2 [] c = "3" -> 3
      [] c = "4" -> 4 [] c = "5" -> 5 [] c = "6" -> 6 [] c = "7" -> 7
      [] c = "8" -> 8 [] c = "9" -> 9

\* value.replace(/[^0-9.-]/g, '')
StripNonNumeric(s) == SelectSeq(s, LAMBDA c : c \in Digits \cup {".", "-"})

RECURSIVE DigitsValue(_, _)
DigitsValue(s, acc) ==
    IF s = <<>> THEN acc ELSE DigitsValue(Tail(s), 10 * acc + DigitVal(Head(s)))

AllDigits(s) == \A i \in 1..Len(s) : s[i] \in Digits

\* position of the first '.', 0 when there is none
DotIndex(s) ==
    IF \E i \in 1..Len(s) : s[i] = "."
    THEN CHOOSE i \in 1..Len(s) : s[i] = "." /\ \A j \in 1..(i - 1) : s[j] # "."
    ELSE 0

\* Number(text) for a text made of digits, '.' and '-' only.
\* The result is [nan, n] with n = floor(10 * value).
StringToNumber(s) ==
    LET neg == s # <<>> /\ Head(s) = "-"
        body == IF neg THEN Tail(s) ELSE s
        dot == DotIndex(body)
        ip == IF dot = 0 THEN body ELSE SubSeq(body, 1, dot - 1)
        fp == IF dot = 0 THEN <<>> ELSE SubSeq(body, dot + 1, Len(body))
        wellFormed == AllDigits(ip) /\ AllDigits(fp) /\ Len(ip) + Len(fp) > 0
        tenthsAbs == 10 * DigitsValue(ip, 0) + (IF fp = <<>> THEN 0 ELSE DigitVal(fp[1]))
        restNonZero == \E i \in 2..Len(fp) : fp[i] # "0"
    IN  IF s = <<>> THEN [nan |-> FALSE, n |-> 0]
        ELSE IF ~wellFormed THEN [nan |-> TRUE, n |-> 0]
        ELSE IF neg THEN [nan |-> FALSE, n |-> (0 - tenthsAbs) - (IF restNonZero THEN 1 ELSE 0)]
        ELSE [nan |-> FALSE, n |-> tenthsAbs]

\* Math.round on a value held in tenths: floor(x + 0.5)
MathRound(tenths) == (tenths + 5) \div 10

Max(a, b) == IF a >= b THEN a ELSE b

(***************************************************************************)
(* Decoded JSON values: what JSON.parse hands to handleParsedResponse.     *)
(* [obj, p, f]: an object carries its members in f (an absent member reads *)
(* as undefined); any other value carries the primitive p.                 *)
(***************************************************************************)
Keys == {"is_food", "name", "reason", "calories", "protein", "carbs", "fats",
         "fiber", "confidence", "serving_size", "notes"}

NoFields == [k \in Keys |-> JUndef]

DObj(fields) == [obj |-> TRUE, p |-> JUndef, f |-> fields]

DPrim(prim) == [obj |-> FALSE, p |-> prim, f |-> NoFields]

\* property access on null or undefined raises a TypeError
AccessThrows(d) == ~d.obj /\ d.p.t \in {"null", "undefined"}

\* d[k] where the access does not throw
Get(d, k) == IF d.obj THEN d.f[k] ELSE JUndef

(***************************************************************************)
(* Messages: a fixed prefix, the text, and the number interpolated into    *)
(* the text (0 when none).                                                 *)
(***************************************************************************)
Msg(text) == [prefix |-> "", text |-> text, n |-> 0]

NoMsg == Msg("")

DefaultNotFoodReason == <<"This image does not appear to contain food">>

NoData ==
    [name |-> <<>>, serving_size |-> JUndef, calories |-> 0, protein |-> 0,
     carbs |-> 0, fats |-> 0, fiber |-> [present |-> FALSE, v |-> 0],
     confidence |-> "", notes |-> JUndef]

\* AIAnalysisResult; type "throw" is an exception leaving the function
FoodResult(data) == [type |-> "food", data |-> data, reason |-> <<>>, message |-> NoMsg]

NotFoodResult(reason) == [type |-> "not_food", data |-> NoData, reason |-> reason, message |-> NoMsg]

ErrorResult(message) == [type |-> "error", data |-> NoData, reason |-> <<>>, message |-> message]

Thrown == [type |-> "throw", data |-> NoData, reason |-> <<>>, message |-> NoMsg]

ConfidenceLevels == {<<"high">>, <<"medium">>, <<"low">>}

\* Math.round(x) alone: the floor at 0 left out
RoundOnly(tenths) == 10 * MathRound(tenths)

\* Math.max(0, Math.round(x)), in tenths like every number of the model
RoundAndFloor(tenths) == 10 * Max(0, MathRound(tenths))

\* Number.isFinite(parsed) ? Math.max(0, Math.round(parsed)) : fallback
FiniteOrFallback(parsed) == IF parsed.nan THEN 0 ELSE RoundAndFloor(parsed.n)

\* toNumber(value, fallback = 0) of normalizeNutritionData
toNumber(value) ==
    IF IsFiniteNumber(value) THEN RoundAndFloor(value.n)
    ELSE IF IsString(value)
         THEN FiniteOrFallback(StringToNumber(StripNonNumeric(value.s)))
         ELSE 0

\* the optional text members serving_size and notes
TextOrUndefined(value) == IF IsString(value) THEN value ELSE JUndef

\* typeof data.name === 'string' && data.name.trim().length > 0
UsableName(nameV) == IsString(nameV) /\ Len(Trim(nameV.s)) > 0

\* ['high', 'medium', 'low'].includes(data.confidence) ? data.confidence : 'medium'
ConfidenceOf(value) ==
    IF IsString(value) /\ value.s \in ConfidenceLevels THEN value.s[1] ELSE "medium"

\* data.fiber !== undefined ? toNumber(data.fiber) : undefined
FiberOf(value) ==
    IF value # JUndef THEN [present |-> TRUE, v |-> toNumber(value)]
    ELSE [present |-> FALSE, v |-> 0]

normalizeNutritionData(input) ==
    IF ~input.obj /\ input.p.t # "array"
    THEN [ok |-> FALSE, data |-> NoData]
    ELSE IF ~UsableName(Get(input, "name"))
    THEN [ok |-> FALSE, data |-> NoData]
    ELSE [ok |-> TRUE,
          data |->
            [name |-> Trim(Get(input, "name").s),
             serving_size |-> TextOrUndefined(Get(input, "serving_size")),
             calories |-> toNumber(Get(input, "calories")),
             protein |-> toNumber(Get(input, "protein")),
             carbs |-> toNumber(Get(input, "carbs")),
             fats |-> toNumber(Get(input, "fats")),
             fiber |-> FiberOf(Get(input, "fiber")),
             confidence |-> ConfidenceOf(Get(input, "confidence")),
             notes |-> TextOrUndefined(Get(input, "notes"))]]

\* parsed.reason when it is text, else the default reason
ReasonOf(value) == IF IsString(value) THEN value.s ELSE DefaultNotFoodReason

\* the result for what normalizeNutritionData returned
FoodOrInvalid(normalized) ==
    IF normalized.ok THEN FoodResult(normalized.data)
    ELSE ErrorResult(Msg("Invalid nutrition data in response"))

\* handleParsedResponse with the two tests in the opposite order
handleParsedResponseNameFirst(parsed) ==
    IF AccessThrows(parsed) THEN Thrown
    ELSE IF Get(parsed, "is_food") = JTrue \/ Truthy(Get(parsed, "name"))
    THEN FoodOrInvalid(normalizeNutritionData(parsed))
    ELSE IF Get(parsed, "is_food") = JFalse
    THEN NotFoodResult(ReasonOf(Get(parsed, "reason")))
    ELSE ErrorResult(Msg("Unexpected response format from AI"))

handleParsedResponse(parsed) ==
    IF AccessThrows(parsed) THEN Thrown
    ELSE IF Get(parsed, "is_food") = JFalse
    THEN NotFoodResult(ReasonOf(Get(parsed, "reason")))
    ELSE IF Get(parsed, "is_food") = JTrue \/ Truthy(Get(parsed, "name"))
    THEN FoodOrInvalid(normalizeNutritionData(parsed))
    ELSE ErrorResult(Msg("Unexpected response format from AI"))

(***************************************************************************)
(* Raw model output: a sequence of tokens [k, key, val].                   *)
(*   fencejson, fence  the markers ```json and ```                         *)
(*   ws, prose         blank space, free text without braces               *)
(*   lbrace, rbrace    '{' and '}'                                         *)
(*   member            one "key": value member of an object                *)
(*   lit               a JSON literal that is not an object                *)
(***************************************************************************)
Tok(k) == [k |-> k, key |-> "", val |-> JUndef]

Member(key, val) == [k |-> "member", key |-> key, val |-> val]

Lit(val) == [k |-> "lit", key |-> "", val |-> val]

\* text.replace(/```json/gi, '').replace(/```/g, '')
StripFences(toks) == SelectSeq(toks, LAMBDA t : t.k \notin {"fencejson", "fence"})

RECURSIVE TrimLeftToks(_)
TrimLeftToks(toks) ==
    IF toks = <<>> THEN <<>>
    ELSE IF Head(toks).k = "ws" THEN TrimLeftToks(Tail(toks)) ELSE toks

RECURSIVE TrimRightToks(_)
TrimRightToks(toks) ==
    IF toks = <<>> THEN <<>>
    ELSE IF toks[Len(toks)].k = "ws"
         THEN TrimRightToks(SubSeq(toks, 1, Len(toks) - 1))
         ELSE toks

TrimToks(toks) == TrimRightToks(TrimLeftToks(toks))

\* members applied left to right: a repeated key keeps its last value
RECURSIVE FoldMembers(_, _)
FoldMembers(ms, fields) ==
    IF ms = <<>> THEN fields
    ELSE FoldMembers(Tail(ms), [fields EXCEPT ![Head(ms).key] = Head(ms).val])

\* JSON.parse of a text without blanks
ParseTokens(t) ==
    IF Len(t) = 1 /\ t[1].k = "lit"
    THEN [ok |-> TRUE, value |-> DPrim(t[1].val)]
    ELSE IF Len(t) >= 2 /\ t[1].k = "lbrace" /\ t[Len(t)].k = "rbrace"
            /\ \A i \in 2..(Len(t) - 1) : t[i].k = "member"
    THEN [ok |-> TRUE, value |-> DObj(FoldMembers(SubSeq(t, 2, Len(t) - 1), NoFields))]
    ELSE [ok |-> FALSE, value |-> DPrim(JUndef)]

\* JSON.parse: [ok, value]; ok = FALSE is a SyntaxError
JSONParse(toks) == ParseTokens(SelectSeq(toks, LAMBDA x : x.k # "ws"))

\* cleanText.indexOf('{'), 1-based; 0 when absent
IndexOfBrace(toks) ==
    IF \E i \in 1..Len(toks) : toks[i].k = "lbrace"
    THEN CHOOSE i \in 1..Len(toks) :
            toks[i].k = "lbrace" /\ \A j \in 1..(i - 1) : toks[j].k # "lbrace"
    ELSE 0

\* cleanText.lastIndexOf('}'), 1-based; 0 when absent
LastIndexOfBrace(toks) ==
    IF \E i \in 1..Len(toks) : toks[i].k = "rbrace"
    THEN CHOOSE i \in 1..Len(toks) :
            toks[i].k = "rbrace" /\ \A j \in (i + 1)..Len(toks) : toks[j].k # "rbrace"
    ELSE 0

\* a text payload as a JavaScript value: [t, toks]
TextOf(toks) == [t |-> "string", toks |-> toks]

NoText == [t |-> "undefined", toks |-> <<>>]

NonStringText == [t |-> "object", toks |-> <<>>]

TruthyText(x) ==
    CASE x.t = "string" -> x.toks # <<>>
      [] x.t = "object" -> TRUE
      [] OTHER -> FALSE

Caught == [caught |-> TRUE, result |-> Thrown]

\* the try block without its catch
HandledUncaught(result) == [caught |-> FALSE, result |-> result]

\* the try block once handleParsedResponse has run
Handled(result) ==
    IF result.type = "throw" THEN Caught ELSE [caught |-> FALSE, result |-> result]

\* the try block once JSON.parse has run
Decoded(parsed) ==
    IF ~parsed.ok THEN Caught ELSE Handled(handleParsedResponse(parsed.value))

\* one try { JSON.parse; handleParsedResponse } block: "caught" when either threw
TryDecode(toks) == Decoded(JSONParse(toks))

CouldNotParse == ErrorResult(Msg("Could not parse AI response as JSON"))

\* step 3 once the substring has been tried
FallbackResult(fallback) ==
    IF fallback.caught THEN CouldNotParse ELSE fallback.result

\* step 3: the substring from the first '{' to the last '}'
BraceFallback(cleanText, firstBrace, lastBrace) ==
    IF firstBrace # 0 /\ lastBrace # 0 /\ lastBrace > firstBrace
    THEN FallbackResult(TryDecode(SubSeq(cleanText, firstBrace, lastBrace)))
    ELSE CouldNotParse

\* step 2 alone: no second attempt on the substring
DirectOnly(cleanText, direct) ==
    IF ~direct.caught THEN direct.result ELSE CouldNotParse

\* steps 2 and 3 once the direct decode has been tried
DirectOrFallback(cleanText, direct) ==
    IF ~direct.caught THEN direct.result
    ELSE BraceFallback(cleanText, IndexOfBrace(cleanText), LastIndexOfBrace(cleanText))

\* steps 2 and 3 on the cleaned text
ParseClean(cleanText) == DirectOrFallback(cleanText, TryDecode(cleanText))

parseAIResponse(text) ==
    IF ~TruthyText(text) \/ text.t # "string"
    THEN ErrorResult(Msg("Empty response from AI"))
    ELSE ParseClean(TrimToks(StripFences(text.toks)))

(***************************************************************************)
(* Credential store and key format (getApiKey, isValidApiKeyFormat).       *)
(***************************************************************************)
KeyPrefix == <<"A", "I", "z", "a">>

MinKeyLength == 30

StartsWith(s, prefix) ==
    Len(s) >= Len(prefix) /\ SubSeq(s, 1, Len(prefix)) = prefix

\* the length test written >= instead of >
isValidApiKeyFormatAtLeast(key) ==
    StartsWith(Trim(key), KeyPrefix) /\ Len(Trim(key)) >= MinKeyLength

isValidApiKeyFormat(key) ==
    StartsWith(Trim(key), KeyPrefix) /\ Len(Trim(key)) > MinKeyLength

\* SecureStore contents: state "stored" | "absent" | "readfail"
Stored(key) == [state |-> "stored", key |-> key]

NoCredential == [state |-> "absent", key |-> <<>>]

UnreadableCredential == [state |-> "readfail", key |-> <<>>]

\* getApiKey(): the key, or null ([null |-> TRUE]) when absent or the read throws
getApiKey(store) ==
    IF store.state = "stored" THEN [null |-> FALSE, key |-> store.key]
    ELSE [null |-> TRUE, key |-> <<>>]

Fill(n) == [i \in 1..n |-> "x"]

Credentials ==
    { NoCredential, UnreadableCredential,
      Stored(<<>>),
      Stored(<<" ">> \o KeyPrefix \o Fill(MinKeyLength - 3) \o <<"\n">>),
      Stored(KeyPrefix \o Fill(MinKeyLength - 4)),
      Stored(KeyPrefix \o Fill(MinKeyLength - 4) \o <<" ">>),
      Stored(<<"a", "I", "z", "a">> \o Fill(MinKeyLength - 3)),
      Stored(Fill(MinKeyLength + 1)) }

(***************************************************************************)
(* requestGeminiAnalysis: one response per attempt.                        *)
(*   kind "transport": fetch rejected with an error whose message errmsg   *)
(*   kind "http": a response with status; body is "unreadable" (json()     *)
(*     rejects), "null" (the body is the JSON value null) or "object";     *)
(*     errtext is body.error.message ("" when absent); text is             *)
(*     candidates[0].content.parts[0].text                                 *)
(***************************************************************************)
GEMINI_MODEL_PREFERENCE ==
    <<"gemini-2.0-flash", "gemini-2.0-flash-lite", "gemini-2.5-pro",
      "gemini-2.5-flash", "gemini-2.5-flash-lite">>

maxRetries == 2

Transport(errmsg) ==
    [kind |-> "transport", status |-> 0, errmsg |-> errmsg, body |-> "unreadable",
     errtext |-> "", text |-> NoText]

HttpError(status, body, errtext) ==
    [kind |-> "http", status |-> status, errmsg |-> "", body |-> body,
     errtext |-> errtext, text |-> NoText]

HttpOk(body, text) ==
    [kind |-> "http", status |-> 200, errmsg |-> "", body |-> body,
     errtext |-> "", text |-> text]

NoResponse ==
    [kind |-> "none", status |-> 0, errmsg |-> "", body |-> "unreadable",
     errtext |-> "", text |-> NoText]

\* response.ok
ResponseOk(resp) == resp.status >= 200 /\ resp.status <= 299

StatusMsg(status) == [prefix |-> "", text |-> "Status ", n |-> status]

TypeErrorMessage == "Cannot read properties of null"

JsonErrorMessage == "JSON Parse error"

\* errorMessage.includes('Network request failed') || errorMessage.includes('fetch')
MentionsNetworkFailure(errmsg) ==
    errmsg \in {"Network request failed", "Failed to fetch"}

\* the catch block: the message it records
CatchMessage(errmsg) ==
    IF errmsg = "" THEN Msg("Network error")
    ELSE IF MentionsNetworkFailure(errmsg)
    THEN Msg("No internet connection. Please check your network.")
    ELSE Msg(errmsg)

Directive(d, msg, result) == [d |-> d, msg |-> msg, result |-> result]

\* an exception thrown inside the try block and not caught
OnExceptionUncaught(errmsg) == Directive("throw", NoMsg, Thrown)

\* an exception thrown inside the try block: the catch records its message
\* and the loop goes on with the next attempt
OnException(errmsg) == Directive("continue", CatchMessage(errmsg), Thrown)

\* the 4xx test without its upper end
IsClientErrorNoUpperEnd(status) == status >= 400 /\ status # 429

\* response.status >= 400 && response.status < 500 && response.status !== 429
IsClientError(status) == status >= 400 /\ status < 500 /\ status # 429

\* the `!response.ok` branch
\* errData.error?.message || `Status ${response.status}`
FailureMessage(resp) ==
    IF resp.body = "object" /\ resp.errtext # "" THEN Msg(resp.errtext)
    ELSE StatusMsg(resp.status)

ClassifyFailure(resp) ==
    IF resp.body = "null" THEN OnException(TypeErrorMessage)
    ELSE IF IsClientError(resp.status)
    THEN Directive("break", FailureMessage(resp), Thrown)
    ELSE Directive("continue", FailureMessage(resp), Thrown)

\* not_food treated like a parser error
ClassifyParsedRetryNotFood(result) ==
    IF result.type = "throw" THEN OnException(TypeErrorMessage)
    ELSE IF result.type \in {"error", "not_food"}
    THEN Directive("continue",
                   IF result.message.text # "" THEN result.message
                   ELSE Msg("Parsing failed"), result)
    ELSE Directive("return", NoMsg, result)

\* what the loop does with the result of parseAIResponse
ClassifyParsed(result) ==
    IF result.type = "throw" THEN OnException(TypeErrorMessage)
    ELSE IF result.type = "error"
    THEN Directive("continue",
                   IF result.message.text # "" THEN result.message
                   ELSE Msg("Parsing failed"), result)
    ELSE Directive("return", NoMsg, result)

\* the body of the attempt loop: what one response makes the loop do
\*   "continue"  next attempt, msg recorded      "break"  next model, msg recorded
\*   "return"    result returned                 "throw"  exception leaves the function
Classify(resp) ==
    IF resp.kind = "transport" THEN OnException(resp.errmsg)
    ELSE IF ~ResponseOk(resp) THEN ClassifyFailure(resp)
    ELSE IF resp.body = "unreadable" THEN OnException(JsonErrorMessage)
    ELSE IF resp.body = "null" THEN OnException(TypeErrorMessage)
    ELSE IF ~TruthyText(resp.text)
    THEN Directive("continue", Msg("Empty response from AI"), Thrown)
    ELSE ClassifyParsed(parseAIResponse(resp.text))

\* the assignment keeping the first message instead of the latest
RecordFirstError(previous, msg) == IF previous.text # "" THEN previous ELSE msg

\* lastErrorMessage = ...: the latest message replaces the previous one
RecordError(previous, msg) == msg

\* the loop test letting one attempt too many through
MoreAttemptsOffByOne(a) == a <= maxRetries

\* attempt++ followed by attempt <= maxRetries
MoreAttempts(a) == a < maxRetries

\* the value returned after the loops
ExhaustedResult(lastMsg) ==
    ErrorResult(IF lastMsg.text # ""
                THEN [prefix |-> "Analysis failed: ", text |-> lastMsg.text, n |-> lastMsg.n]
                ELSE [prefix |-> "Analysis failed: ",
                      text |-> "Please check your internet connection", n |-> 0])

(***************************************************************************)
(* Text payloads the remote model may answer with.                         *)
(***************************************************************************)
CleanFoodText ==
    <<Tok("lbrace"), Member("is_food", JTrue), Member("name", JStr(<<"Apple">>)),
      Member("calories", JNum(950)), Member("protein", JNum(0)),
      Member("carbs", JNum(250)), Member("fats", JNum(0)),
      Member("confidence", JStr(<<"high">>)), Tok("rbrace")>>

FencedNotFoodText ==
    <<Tok("fencejson"), Tok("ws"), Tok("lbrace"), Member("is_food", JFalse),
      Member("reason", JStr(<<"a", " ", "cat">>)), Tok("rbrace"), Tok("ws"), Tok("fence")>>

NoisyFoodText ==
    <<Tok("prose"), Tok("ws"), Tok("lbrace"),
      Member("name", JStr(<<"Rice", " ", "Bowl">>)),
      Member("calories", JStr(<<"4", "2", "0", " ", "kcal">>)),
      Member("protein", JNum(180)), Tok("rbrace"), Tok("ws"), Tok("prose")>>

GarbageText == <<Tok("prose"), Tok("ws"), Tok("prose")>>

NullText == <<Lit(JNull)>>

NumberText == <<Tok("ws"), Lit(JNum(420))>>

NamelessFoodText == <<Tok("lbrace"), Member("is_food", JTrue), Tok("rbrace")>>

BlankText == <<Tok("ws"), Tok("ws")>>

\* the payloads the analysis loop is exercised with
AnalyzeTexts ==
    { TextOf(CleanFoodText), TextOf(FencedNotFoodText), TextOf(GarbageText),
      TextOf(NullText), TextOf(NamelessFoodText), TextOf(<<>>), NoText,
      NonStringText }

TransportErrors == {"Network request failed", "Request timed out"}

Responses ==
    { Transport(e) : e \in TransportErrors }
    \cup { HttpError(st, "unreadable", "") : st \in {304, 400, 403, 429, 500} }
    \cup { HttpError(st, "null", "") : st \in {403, 500} }
    \cup { HttpError(st, "object", "API key not valid") : st \in {403, 500} }
    \cup { HttpError(429, "object", "") }
    \cup { HttpOk("unreadable", NoText), HttpOk("null", NoText) }
    \cup { HttpOk("object", t) : t \in AnalyzeTexts }

(***************************************************************************)
(* The daily ledger (hooks/useStorage.ts).                                 *)
(* In memory a meal is [id, timestamp, name, calories, protein, carbs,     *)
(* fats] and an entry is [calories, protein, carbs, fats, meals,           *)
(* waterIntake]; texts are character sequences, numbers are in tenths.     *)
(***************************************************************************)
initialDailyNutrition ==
    [calories |-> 0, protein |-> 0, carbs |-> 0, fats |-> 0, meals |-> <<>>,
     waterIntake |-> 0]

DigitChars == <<"1", "2", "3", "4", "5", "6", "7", "8", "9">>

\* createMealId(): the k-th identifier generated
createMealId(k) == <<"uuid-", DigitChars[k]>>

\* new Date().toISOString() at clock tick k
ISOString(k) == <<"T", DigitChars[k]>>

\* value || 0 on a number
OrZero(v) == IF v = 0 THEN 0 ELSE v

RECURSIVE SumField(_, _)
SumField(meals, field) ==
    IF meals = <<>> THEN 0
    ELSE OrZero(Head(meals)[field]) + SumField(Tail(meals), field)

\* calculateMealTotals with the fats taken from the carbs
calculateMealTotalsSwapped(meals) ==
    [calories |-> SumField(meals, "calories"), protein |-> SumField(meals, "protein"),
     carbs |-> SumField(meals, "carbs"), fats |-> SumField(meals, "carbs")]

calculateMealTotals(meals) ==
    [calories |-> SumField(meals, "calories"), protein |-> SumField(meals, "protein"),
     carbs |-> SumField(meals, "carbs"), fats |-> SumField(meals, "fats")]

\* { ...totals, meals, waterIntake }
EntryOf(totals, meals, waterIntake) ==
    [calories |-> totals.calories, protein |-> totals.protein, carbs |-> totals.carbs,
     fats |-> totals.fats, meals |-> meals, waterIntake |-> waterIntake]

\* the entry built by addMeal, updateMeal and deleteMeal from the new meal list
WithMeals(meals, waterIntake) == EntryOf(calculateMealTotals(meals), meals, waterIntake)

\* { ...meal, id: createMealId(), timestamp: new Date().toISOString() }
\* (an id or timestamp the candidate carries is overwritten by the spread order)
NewMealKeepingCandidate(meal, id, timestamp) ==
    [meal EXCEPT !.id = IF meal.id # <<>> THEN meal.id ELSE id,
                 !.timestamp = IF meal.timestamp # <<>> THEN meal.timestamp ELSE timestamp]

NewMeal(meal, id, timestamp) == [meal EXCEPT !.id = id, !.timestamp = timestamp]

\* the value of a call that returns nothing
NoMeal ==
    [id |-> <<>>, timestamp |-> <<>>, name |-> <<>>, calories |-> 0, protein |-> 0,
     carbs |-> 0, fats |-> 0]

\* addMeal: the entry to save
AddMealData(entry, newMeal) == WithMeals(Append(entry.meals, newMeal), entry.waterIntake)

\* a Partial<Meal>: [has, val], has the set of members supplied
\* { ...m, ...updates }
ApplyUpdates(m, updates) ==
    [f \in DOMAIN m |-> IF f \in updates.has THEN updates.val[f] ELSE m[f]]

\* data.meals.map(m => m.id === mealId ? { ...m, ...updates } : m)
MapUpdates(meals, mealId, updates) ==
    [i \in 1..Len(meals) |->
        IF meals[i].id = mealId THEN ApplyUpdates(meals[i], updates) ELSE meals[i]]

\* updateMeal: the entry to save
UpdateMealData(entry, mealId, updates) ==
    WithMeals(MapUpdates(entry.meals, mealId, updates), entry.waterIntake)

\* deleteMeal: the entry to save
DeleteMealData(entry, mealId) ==
    WithMeals(SelectSeq(entry.meals, LAMBDA m : m.id # mealId), entry.waterIntake)

\* addWater: the entry to save
AddWaterData(entry, ml) ==
    [entry EXCEPT !.waterIntake = OrZero(entry.waterIntake) + ml]

(***************************************************************************)
(* The stored form: JSON.stringify writes an entry as a JSON object whose  *)
(* members are JavaScript values; JSON.parse reads it back.                *)
(***************************************************************************)
StringifyMeal(m) ==
    [obj |-> TRUE, id |-> JStr(m.id), timestamp |-> JStr(m.timestamp),
     name |-> JStr(m.name), calories |-> JNum(m.calories), protein |-> JNum(m.protein),
     carbs |-> JNum(m.carbs), fats |-> JNum(m.fats)]

\* JSON.stringify(newData)
Stringify(entry) ==
    [obj |-> TRUE, calories |-> JNum(entry.calories), protein |-> JNum(entry.protein),
     carbs |-> JNum(entry.carbs), fats |-> JNum(entry.fats),
     isArray |-> TRUE,
     meals |-> [i \in 1..Len(entry.meals) |-> StringifyMeal(entry.meals[i])],
     waterIntake |-> JNum(entry.waterIntake)]

\* a stored value that is not an object (null, a number, ...)
NonObjectJSON ==
    [obj |-> FALSE, calories |-> JUndef, protein |-> JUndef, carbs |-> JUndef,
     fats |-> JUndef, isArray |-> FALSE, meals |-> <<>>, waterIntake |-> JUndef]

\* a meal-list element that is not an object
NonObjectMeal ==
    [obj |-> FALSE, id |-> JUndef, timestamp |-> JUndef, name |-> JUndef,
     calories |-> JUndef, protein |-> JUndef, carbs |-> JUndef, fats |-> JUndef]

\* AsyncStorage cell: "missing" (null), "text" (decodable, value), "garbage"
\* (JSON.parse throws)
Missing == [state |-> "missing", value |-> NonObjectJSON]

Garbage == [state |-> "garbage", value |-> NonObjectJSON]

StoredText(value) == [state |-> "text", value |-> value]

\* Number(value) of a text: blanks around it are skipped, any other
\* character outside digits, '.', '-' makes it NaN
NumberOfText(chars) ==
    IF StripNonNumeric(Trim(chars)) = Trim(chars) THEN StringToNumber(Trim(chars))
    ELSE [nan |-> TRUE, n |-> 0]

\* Number.isFinite(parsed) ? Math.max(0, parsed) : fallback  (fallback 0)
FloorOrZero(parsed) == IF parsed.nan THEN 0 ELSE Max(0, parsed.n)

\* ensureNumber(value, fallback = 0) of normalizeMeal
ensureNumberOfMeal(value) ==
    IF IsFiniteNumber(value) THEN Max(0, value.n)
    ELSE IF IsString(value) THEN FloorOrZero(NumberOfText(value.s))
    ELSE 0

\* typeof v === 'string' && v.trim()
NonBlankText(v) == IsString(v) /\ Trim(v.s) # <<>>

\* `Meal ${index + 1}`, index counted from 0
DefaultMealName(index) == <<"Meal", " ", DigitChars[index + 1]>>

\* `${timestamp}-${index}-${random}`: random is the k-th random suffix
SynthesizedId(timestamp, index, k) ==
    timestamp \o <<"-", DigitChars[index + 1], "-", "rnd-", DigitChars[k]>>

\* the timestamp normalizeMeal settles on
MealTimestamp(record, now) ==
    IF NonBlankText(record.timestamp) THEN record.timestamp.s ELSE ISOString(now)

\* normalizeMeal(meal, index); fresh numbers the identifier or random suffix
\* it may generate, now is the clock
normalizeMeal(meal, index, fresh, now) ==
    IF ~meal.obj
    THEN [id |-> createMealId(fresh), timestamp |-> ISOString(now),
          name |-> DefaultMealName(index), calories |-> 0, protein |-> 0,
          carbs |-> 0, fats |-> 0]
    ELSE [id |-> IF NonBlankText(meal.id) THEN meal.id.s
                 ELSE SynthesizedId(MealTimestamp(meal, now), index, fresh),
          timestamp |-> MealTimestamp(meal, now),
          name |-> IF NonBlankText(meal.name) THEN Trim(meal.name.s)
                   ELSE DefaultMealName(index),
          calories |-> ensureNumberOfMeal(meal.calories),
          protein |-> ensureNumberOfMeal(meal.protein),
          carbs |-> ensureNumberOfMeal(meal.carbs),
          fats |-> ensureNumberOfMeal(meal.fats)]

\* ensureNumber(value, fallback) of normalizeDailyNutrition
ensureNumberOfDay(value, fallback) ==
    IF IsFiniteNumber(value) THEN Max(0, value.n) ELSE fallback

\* the meal list with the elements that are no objects filtered out first
NormalizeMealsDroppingNonObjects(record, fresh, now) ==
    IF record.isArray
    THEN [i \in 1..Len(SelectSeq(record.meals, LAMBDA m : m.obj)) |->
             normalizeMeal(SelectSeq(record.meals, LAMBDA m : m.obj)[i], i - 1,
                           fresh + i - 1, now)]
    ELSE <<>>

\* mealsRaw.map((meal, index) => normalizeMeal(meal, index))
NormalizeMeals(record, fresh, now) ==
    IF record.isArray
    THEN [i \in 1..Len(record.meals) |->
             normalizeMeal(record.meals[i], i - 1, fresh + i - 1, now)]
    ELSE <<>>

\* the entry normalizeDailyNutrition returns for the normalised meals
NormalizedEntry(record, meals, totals) ==
    [calories |-> ensureNumberOfDay(record.calories, totals.calories),
     protein |-> ensureNumberOfDay(record.protein, totals.protein),
     carbs |-> ensureNumberOfDay(record.carbs, totals.carbs),
     fats |-> ensureNumberOfDay(record.fats, totals.fats),
     meals |-> meals,
     waterIntake |-> ensureNumberOfDay(record.waterIntake, 0)]

NormalizedWith(record, meals) ==
    NormalizedEntry(record, meals, calculateMealTotals(meals))

normalizeDailyNutrition(input, fresh, now) ==
    IF ~input.obj THEN initialDailyNutrition
    ELSE NormalizedWith(input, NormalizeMeals(input, fresh, now))

\* how the read of a cell went: "rejected" (getItem rejected), "missing"
\* (null), "undecodable" (JSON.parse threw), "decoded"
ReadOf(cell, readOk) ==
    IF ~readOk THEN "rejected"
    ELSE IF cell.state = "missing" THEN "missing"
    ELSE IF cell.state = "garbage" THEN "undecodable"
    ELSE "decoded"

\* load with the state left alone on a failed read (water -1 marks the entry
\* as not set)
LoadedEntryNoCatch(cell, readOk, fresh, now) ==
    IF ReadOf(cell, readOk) \in {"rejected", "undecodable"}
    THEN [initialDailyNutrition EXCEPT !.waterIntake = -1]
    ELSE IF cell.state # "text" THEN initialDailyNutrition
    ELSE normalizeDailyNutrition(cell.value, fresh, now)

\* load with the state left alone for a key that holds nothing (water -1 marks
\* the entry as not set)
LoadedEntrySkipsMissing(cell, readOk, fresh, now) ==
    IF readOk /\ cell.state = "missing"
    THEN [initialDailyNutrition EXCEPT !.waterIntake = -1]
    ELSE IF ~readOk \/ cell.state # "text" THEN initialDailyNutrition
    ELSE normalizeDailyNutrition(cell.value, fresh, now)

\* what load puts into the state for a cell it read
\*   readOk = FALSE: AsyncStorage.getItem rejected
LoadedEntry(cell, readOk, fresh, now) ==
    IF ~readOk \/ cell.state # "text" THEN initialDailyNutrition
    ELSE normalizeDailyNutrition(cell.value, fresh, now)

(***************************************************************************)
(* State.                                                                  *)
(***************************************************************************)
VARIABLES
    parsedIn,          \* SpecParsed: the decoded value given to handleParsedResponse
    parsedOut,         \* SpecParsed: its result (type "none" before the call)
    rawText,           \* SpecParse: the text given to parseAIResponse
    parseOut,          \* SpecParse: its result (type "none" before the call)
    credential,        \* SecureStore contents
    pc,                \* analyzeFood: "idle" | "loop" | "done"
    model,             \* index into GEMINI_MODEL_PREFERENCE of the outer loop
    attempt,           \* the inner loop counter, 0..maxRetries
    lastErrorMessage,  \* requestGeminiAnalysis.lastErrorMessage
    outcome,           \* what analyzeFood returned (type "none" while pending)
    requests,          \* the model names of the requests sent, in order
    leading500,        \* how many responses, from the first on, had status 500 in a row
    lastResponse,      \* the response of the latest attempt
    storage,           \* AsyncStorage: day key -> cell
    date,              \* the date useDailyNutrition is rendered with
    data,              \* useDailyNutrition state: the entry in memory
    loading,           \* useDailyNutrition state: loading
    saves,             \* save() calls awaiting AsyncStorage.setItem, in call order
    loads,             \* load() calls awaiting AsyncStorage.getItem, in call order
    nextId,            \* how many identifiers createMealId has produced, plus one
    clock,             \* the clock, ticking at every handler call
    origin,            \* which step set the entry in memory, and for which key
    returned,          \* what the caller of the latest settled mutation got back
    weekEnd,           \* useWeekData: the endDate of the load in progress
    weekPos,           \* useWeekData: which of the 7 days is read next (0: no load)
    weekDays,          \* useWeekData: the local array `days` of the load in progress
    weekData,          \* useWeekData state: weekData
    weekLoading,       \* useWeekData state: loading
    analyzing,         \* App state: analyzing
    analyses,          \* analyzeFoodImage calls in progress, in call order
    deleteIssued       \* the ids deleteMeal has been called with

parsedVars == <<parsedIn, parsedOut, rawText, parseOut>>

analyzeVars == <<credential, pc, model, attempt, lastErrorMessage, outcome,
                 requests, leading500, lastResponse>>

ledgerVars == <<storage, date, data, loading, saves, loads, nextId, clock, origin,
                returned>>

weekVars == <<weekEnd, weekPos, weekDays, weekData, weekLoading>>

appVars == <<analyzing, analyses, deleteIssued>>

vars == <<parsedVars, analyzeVars, ledgerVars, weekVars, appVars>>

NoOutcome == [type |-> "none", data |-> NoData, reason |-> <<>>, message |-> NoMsg]

NumModels == Len(GEMINI_MODEL_PREFERENCE)

ParseIdle == rawText = NoText /\ parseOut = NoOutcome

ParsedIdle == parsedIn = DPrim(JUndef) /\ parsedOut = NoOutcome /\ ParseIdle

AnalyzeIdle ==
    /\ credential = NoCredential
    /\ pc = "idle"
    /\ model = 1
    /\ attempt = 0
    /\ lastErrorMessage = NoMsg
    /\ outcome = NoOutcome
    /\ requests = <<>>
    /\ leading500 = 0
    /\ lastResponse = NoResponse

\* getDateKey of eight consecutive days, oldest first
Calendar ==
    <<"Tue Oct 27 2026", "Wed Oct 28 2026", "Thu Oct 29 2026", "Fri Oct 30 2026",
      "Sat Oct 31 2026", "Sun Nov 01 2026", "Mon Nov 02 2026", "Tue Nov 03 2026">>

DayKeys == { Calendar[i] : i \in 1..Len(Calendar) }

\* the dates the screen is moved between
Days == {"Mon Nov 02 2026", "Tue Nov 03 2026"}

DayIndex(key) == CHOOSE i \in 1..Len(Calendar) : Calendar[i] = key

\* the seven keys useWeekData reads for endDate, oldest first (i = 6 .. 0)
WeekKeys(endDate) == [k \in 1..7 |-> Calendar[DayIndex(endDate) - 7 + k]]

FirstDay == "Mon Nov 02 2026"

\* useWeekData before its first render
WeekIdle ==
    /\ weekEnd = FirstDay
    /\ weekPos = 0
    /\ weekDays = <<>>
    /\ weekData = <<>>
    /\ weekLoading = TRUE

\* the screen with no analysis started and nothing deleted
AppIdle == analyzing = FALSE /\ analyses = <<>> /\ deleteIssued = {}

\* no mutation has settled yet
\*   n        how many mutations have settled
\*   threw    the call ended with an exception
\*   value    the value the call resolved to (NoMeal: undefined)
\*   promised the value the call resolves to when its write succeeds
\*   written  AsyncStorage.setItem resolved
NothingReturned ==
    [n |-> 0, op |-> "none", threw |-> FALSE, value |-> NoMeal, promised |-> NoMeal,
     written |-> FALSE]

\* the hook before its first render: nothing stored, nothing in flight
LedgerIdle ==
    /\ storage = [d \in DayKeys |-> Missing]
    /\ date = FirstDay
    /\ data = initialDailyNutrition
    /\ loading = TRUE
    /\ saves = <<>>
    /\ loads = <<>>
    /\ nextId = 1
    /\ clock = 1
    /\ origin = [op |-> "initial", key |-> FirstDay, read |-> "none"]
    /\ returned = NothingReturned
    /\ WeekIdle
    /\ AppIdle

(***************************************************************************)
(* analyzeFood                                                             *)
(***************************************************************************)
\* analyzeFood up to the call of requestGeminiAnalysis
AnalyzeFood ==
    /\ pc = "idle"
    /\ LET apiKey == getApiKey(credential)
       IN  IF apiKey.null \/ apiKey.key = <<>>
           THEN /\ pc' = "done"
                /\ outcome' = ErrorResult(Msg("API key not configured. Please add your key in Settings."))
           ELSE IF ~isValidApiKeyFormat(apiKey.key)
           THEN /\ pc' = "done"
                /\ outcome' = ErrorResult(Msg("Invalid API key format."))
           ELSE /\ pc' = "loop"
                /\ outcome' = outcome
    /\ UNCHANGED <<credential, model, attempt, lastErrorMessage, requests, leading500, lastResponse>>
    /\ UNCHANGED parsedVars
    /\ UNCHANGED <<ledgerVars, weekVars, appVars>>

\* leaving the inner loop for the next model, or both loops
NextModel(msg) ==
    IF model < NumModels
    THEN /\ model' = model + 1
         /\ attempt' = 0
         /\ pc' = "loop"
         /\ outcome' = outcome
    ELSE /\ pc' = "done"
         /\ outcome' = ExhaustedResult(msg)
         /\ UNCHANGED <<model, attempt>>

\* the rest of an iteration once the response has been classified as c and
\* the message to record is msg
AfterResponse(c, msg) ==
    CASE c.d = "return" ->
           /\ pc' = "done"
           /\ outcome' = c.result
           /\ UNCHANGED <<model, attempt, lastErrorMessage>>
      [] c.d = "throw" ->
           /\ pc' = "done"
           /\ outcome' = Thrown
           /\ UNCHANGED <<model, attempt, lastErrorMessage>>
      [] c.d = "break" ->
           /\ lastErrorMessage' = msg
           /\ NextModel(msg)
      [] c.d = "continue" ->
           /\ lastErrorMessage' = msg
           /\ IF MoreAttempts(attempt)
              THEN /\ attempt' = attempt + 1
                   /\ UNCHANGED <<model, pc, outcome>>
              ELSE NextModel(msg)

Classified(c) == AfterResponse(c, RecordError(lastErrorMessage, c.msg))

\* one iteration of the inner loop: the request, its response, what follows
Attempt(resp) ==
    /\ pc = "loop"
    /\ requests' = Append(requests, GEMINI_MODEL_PREFERENCE[model])
    /\ leading500' = IF resp.status = 500 /\ leading500 = Len(requests)
                      THEN leading500 + 1 ELSE leading500
    /\ lastResponse' = resp
    /\ Classified(Classify(resp))
    /\ UNCHANGED credential
    /\ UNCHANGED parsedVars
    /\ UNCHANGED <<ledgerVars, weekVars, appVars>>

InitAnalyze ==
    /\ ParsedIdle
    /\ LedgerIdle
    /\ credential \in Credentials
    /\ pc = "idle"
    /\ model = 1
    /\ attempt = 0
    /\ lastErrorMessage = NoMsg
    /\ outcome = NoOutcome
    /\ requests = <<>>
    /\ leading500 = 0
    /\ lastResponse = NoResponse

NextAnalyze ==
    \/ AnalyzeFood
    \/ \E resp \in Responses : Attempt(resp)

SpecAnalyze == InitAnalyze /\ [][NextAnalyze]_vars

(***************************************************************************)
(* SpecParsed: handleParsedResponse on bounded decoded values.             *)
(***************************************************************************)
IsFoodValues == {JUndef, JTrue, JFalse, JStr(<<"false">>)}

NameValues ==
    {JUndef, JStr(<<>>), JStr(<<" ">>), JStr(<<"Apple">>),
     JStr(<<" ", "Rice", " ", "Bowl", "\n">>), JNum(50)}

ReasonValues == {JUndef, JStr(<<"a", " ", "cat">>), JStr(<<>>), JNum(70)}

NumericValues ==
    {JUndef, JNull, JInfinity, JNum(950), JNum(-30), JNum(25), JNum(4),
     JStr(<<"4", "2", "0", " ", "kcal">>), JStr(<<"1", ".", "5">>),
     JStr(<<"1", "-", "2">>), JStr(<<"-", "7">>)}

FiberValues == {JUndef, JNull, JStr(<<"3", "g">>)}

ConfidenceValues == {JUndef, JStr(<<"low">>), JStr(<<"HIGH">>)}

DecodedObjects ==
    { DObj([NoFields EXCEPT !["is_food"] = i, !["name"] = nm, !["reason"] = r,
                            !["calories"] = c, !["protein"] = pr, !["carbs"] = cb,
                            !["fats"] = ft, !["fiber"] = fb, !["confidence"] = cf]) :
        i \in IsFoodValues, nm \in NameValues, r \in ReasonValues,
        c \in NumericValues, pr \in {JUndef, JNum(180)},
        cb \in {JNum(250), JStr(<<"-", "7">>)}, ft \in {JNum(-30), JNum(25)},
        fb \in FiberValues, cf \in ConfidenceValues }

DecodedValues ==
    DecodedObjects
    \cup { DPrim(JNull), DPrim(JNum(420)), DPrim(JArray), DPrim(JTrue),
           DPrim(JStr(<<"Apple">>)) }

InitParsed ==
    /\ parsedIn \in DecodedValues
    /\ parsedOut = NoOutcome
    /\ ParseIdle
    /\ AnalyzeIdle
    /\ LedgerIdle

HandleParsed ==
    /\ parsedOut = NoOutcome
    /\ parsedOut' = handleParsedResponse(parsedIn)
    /\ UNCHANGED <<parsedIn, rawText, parseOut>>
    /\ UNCHANGED analyzeVars
    /\ UNCHANGED <<ledgerVars, weekVars, appVars>>

NextParsed == HandleParsed

SpecParsed == InitParsed /\ [][NextParsed]_vars

HandledParsed == parsedOut # NoOutcome

\* C9: a decoded object whose is_food is exactly false yields not_food,
\* whatever else it carries, with the supplied reason when that is text and
\* the default reason otherwise.
ExplicitNotFoodYieldsNotFood ==
    (HandledParsed /\ parsedIn.obj /\ Get(parsedIn, "is_food") = JFalse)
    => /\ parsedOut.type = "not_food"
       /\ parsedOut.reason = IF IsString(Get(parsedIn, "reason"))
                             THEN Get(parsedIn, "reason").s
                             ELSE DefaultNotFoodReason

\* C9 witness: is_food false together with a usable name and nutrient values
NotFoodDespiteNameReached ==
    /\ HandledParsed
    /\ Get(parsedIn, "is_food") = JFalse
    /\ Get(parsedIn, "name") = JStr(<<"Apple">>)
    /\ Get(parsedIn, "calories") = JNum(950)
    /\ Get(parsedIn, "reason") = JNum(70)
    /\ parsedOut.type = "not_food"

IsWholeNonNegative(tenths) == tenths >= 0 /\ tenths % 10 = 0

\* what C10 promises about a food result for the given input
FoodRecordWellFormed ==
    /\ parsedOut.type = "food"
    /\ IsWholeNonNegative(parsedOut.data.calories)
    /\ IsWholeNonNegative(parsedOut.data.protein)
    /\ IsWholeNonNegative(parsedOut.data.carbs)
    /\ IsWholeNonNegative(parsedOut.data.fats)
    /\ parsedOut.data.fiber.present => IsWholeNonNegative(parsedOut.data.fiber.v)
    /\ parsedOut.data.name = Trim(Get(parsedIn, "name").s)
    /\ parsedOut.data.name # <<>>
    /\ parsedOut.data.confidence \in {"high", "medium", "low"}
    /\ IF Get(parsedIn, "confidence") \in {JStr(<<"high">>), JStr(<<"medium">>), JStr(<<"low">>)}
       THEN parsedOut.data.confidence = Get(parsedIn, "confidence").s[1]
       ELSE parsedOut.data.confidence = "medium"

\* C10 as stated: every decoded input whose name is present and non-empty
\* yields a well-formed food record.
NonEmptyNameYieldsFood ==
    (HandledParsed /\ IsString(Get(parsedIn, "name")) /\ Len(Get(parsedIn, "name").s) > 0)
    => FoodRecordWellFormed

\* C10 amended: every decoded input whose is_food is not exactly false and
\* whose name is text that is non-empty after trimming yields a food record
\* with whole non-negative calories, protein, carbs, fats (and fiber when
\* present), the trimmed name, and a confidence among high, medium, low
\* (medium unless the input confidence is exactly one of the three).
UsableNameYieldsFood ==
    (/\ HandledParsed
     /\ Get(parsedIn, "is_food") # JFalse
     /\ IsString(Get(parsedIn, "name"))
     /\ Len(Trim(Get(parsedIn, "name").s)) > 0)
    => FoodRecordWellFormed

\* C10 witness: a padded name, a negative number, numeric text and an
\* unrecognised confidence are normalised into a food record
FoodFromMessyInputReached ==
    /\ HandledParsed
    /\ Get(parsedIn, "name") = JStr(<<" ", "Rice", " ", "Bowl", "\n">>)
    /\ Get(parsedIn, "calories") = JStr(<<"4", "2", "0", " ", "kcal">>)
    /\ Get(parsedIn, "fats") = JNum(-30)
    /\ Get(parsedIn, "confidence") = JStr(<<"HIGH">>)
    /\ parsedOut.type = "food"
    /\ parsedOut.data.calories = 4200
    /\ parsedOut.data.fats = 0
    /\ parsedOut.data.confidence = "medium"

\* the input neither carries is_food exactly false nor a usable name
LacksUsableName ==
    /\ Get(parsedIn, "is_food") # JFalse
    /\ ~UsableName(Get(parsedIn, "name"))

\* C11: every decoded input that lacks a usable name (absent, not text, empty
\* or blank) and does not carry is_food exactly false yields an error result,
\* also when is_food is exactly true; never a food result.
UnusableNameYieldsError ==
    (HandledParsed /\ LacksUsableName) => parsedOut.type = "error"

\* fiber is given and is neither a finite number nor text
FiberGivenButNotNumeric ==
    /\ Get(parsedIn, "fiber") # JUndef
    /\ ~IsFiniteNumber(Get(parsedIn, "fiber"))
    /\ ~IsString(Get(parsedIn, "fiber"))

\* a nutrient that is neither a finite number nor text comes out as 0
NonNumericNutrientsAreZero ==
    \A k \in {"calories", "protein", "carbs", "fats"} :
        (~IsFiniteNumber(Get(parsedIn, k)) /\ ~IsString(Get(parsedIn, k)))
        => parsedOut.data[k] = 0

\* C12: in a food record a calories, protein, carbs or fats value that is
\* neither a finite number nor text is 0, while a fiber value that is neither
\* a finite number nor text (null, a boolean, an object) leaves fiber absent.
NonNumericFiberIsAbsent ==
    (HandledParsed /\ parsedOut.type = "food")
    => /\ NonNumericNutrientsAreZero
       /\ FiberGivenButNotNumeric => ~parsedOut.data.fiber.present

(***************************************************************************)
(* SpecParse: parseAIResponse on bounded texts.  A text is a lead-in, a    *)
(* body and a tail; the body is an object of up to MaxMembers members, a   *)
(* literal, or something that is no JSON.                                  *)
(***************************************************************************)
MaxMembers == 3

MemberChoices ==
    { Member("is_food", JTrue), Member("is_food", JFalse),
      Member("name", JStr(<<"Rice", " ", "Bowl">>)),
      Member("calories", JStr(<<"4", "2", "0", " ", "kcal">>)),
      Member("protein", JNum(180)),
      Member("reason", JStr(<<"a", " ", "cat">>)) }

MemberSeqs == UNION { [1..n -> MemberChoices] : n \in 0..MaxMembers }

ObjectText(ms) == <<Tok("lbrace")>> \o ms \o <<Tok("rbrace")>>

Bodies ==
    { ObjectText(ms) : ms \in MemberSeqs }
    \cup { <<Lit(JNull)>>, <<Lit(JNum(420))>>, <<Lit(JTrue)>>, <<Lit(JArray)>>,
           <<Lit(JStr(<<"Apple">>))>> }
    \cup { <<>>, <<Tok("prose")>>,
           <<Tok("lbrace"), Member("name", JStr(<<"Rice", " ", "Bowl">>))>>,
           <<Tok("rbrace"), Tok("prose"), Tok("lbrace")>>,
           <<Tok("lbrace"), Tok("prose"), Tok("rbrace")>>,
           ObjectText(<<Member("is_food", JFalse)>>) \o <<Tok("ws"), Tok("prose"), Tok("ws")>>
               \o ObjectText(<<Member("is_food", JTrue)>>) }

LeadIns ==
    { <<>>, <<Tok("ws")>>, <<Tok("fencejson"), Tok("ws")>>, <<Tok("fence"), Tok("ws")>>,
      <<Tok("prose"), Tok("ws")>>, <<Tok("prose"), Tok("rbrace"), Tok("ws")>>,
      <<Tok("fence"), Tok("prose"), Tok("ws")>> }

Tails ==
    { <<>>, <<Tok("ws")>>, <<Tok("ws"), Tok("fence")>>, <<Tok("ws"), Tok("prose")>>,
      <<Tok("ws"), Tok("fence"), Tok("ws"), Tok("prose")>>,
      <<Tok("ws"), Tok("prose"), Tok("lbrace")>> }

RawTexts ==
    { TextOf(l \o b \o t) : l \in LeadIns, b \in Bodies, t \in Tails }
    \cup { NoText, NonStringText }

InitParse ==
    /\ rawText \in RawTexts
    /\ parseOut = NoOutcome
    /\ parsedIn = DPrim(JUndef)
    /\ parsedOut = NoOutcome
    /\ AnalyzeIdle
    /\ LedgerIdle

ParseResponse ==
    /\ parseOut = NoOutcome
    /\ parseOut' = parseAIResponse(rawText)
    /\ UNCHANGED <<parsedIn, parsedOut, rawText>>
    /\ UNCHANGED analyzeVars
    /\ UNCHANGED <<ledgerVars, weekVars, appVars>>

NextParse == ParseResponse

SpecParse == InitParse /\ [][NextParse]_vars

ParsedText == parseOut # NoOutcome

\* the input is a text with at least one character
IsNonEmptyText == rawText.t = "string" /\ rawText.toks # <<>>

\* the text without fence markers and surrounding blanks
Stripped == TrimToks(StripFences(rawText.toks))

OpenBraces == { i \in 1..Len(Stripped) : Stripped[i].k = "lbrace" }

CloseBraces == { i \in 1..Len(Stripped) : Stripped[i].k = "rbrace" }

FirstOpen == CHOOSE i \in OpenBraces : \A j \in OpenBraces : i <= j

LastClose == CHOOSE i \in CloseBraces : \A j \in CloseBraces : j <= i

\* both braces exist and the first '{' precedes the last '}'
HasBraceSpan == OpenBraces # {} /\ CloseBraces # {} /\ FirstOpen < LastClose

BraceSpan == SubSeq(Stripped, FirstOpen, LastClose)

DirectDecodes == JSONParse(Stripped).ok

SpanDecodes == HasBraceSpan /\ JSONParse(BraceSpan).ok

RiceBowlProse ==
    TextOf(<<Tok("prose"), Tok("ws"), Tok("lbrace"),
             Member("name", JStr(<<"Rice", " ", "Bowl">>)),
             Member("calories", JStr(<<"4", "2", "0", " ", "kcal">>)),
             Member("protein", JNum(180)), Tok("rbrace"), Tok("ws"), Tok("prose")>>)

RiceBowlRecord ==
    [name |-> <<"Rice", " ", "Bowl">>, serving_size |-> JUndef, calories |-> 4200,
     protein |-> 180, carbs |-> 0, fats |-> 0, fiber |-> [present |-> FALSE, v |-> 0],
     confidence |-> "medium", notes |-> JUndef]

FencedNotFood ==
    TextOf(<<Tok("fencejson"), Tok("ws"), Tok("lbrace"), Member("is_food", JFalse),
             Member("reason", JStr(<<"a", " ", "cat">>)), Tok("rbrace"), Tok("ws"),
             Tok("fence")>>)

\* C13: for a non-empty text, when the text without fence markers decodes,
\* the result is handleParsedResponse of the decoded value; when it does not
\* and the part from the first '{' to the last '}' exists and decodes, the
\* result is handleParsedResponse of that; so the prose-wrapped Rice Bowl
\* text yields food (Rice Bowl, 420, 18, 0, 0, medium) and the fenced
\* not-food text yields not_food with reason "a cat".
StripThenDirectThenBraces ==
    (ParsedText /\ IsNonEmptyText)
    => /\ (DirectDecodes /\ ~AccessThrows(JSONParse(Stripped).value))
          => parseOut = handleParsedResponse(JSONParse(Stripped).value)
       /\ (~DirectDecodes /\ SpanDecodes)
          => parseOut = handleParsedResponse(JSONParse(BraceSpan).value)
       /\ rawText = RiceBowlProse => parseOut = FoodResult(RiceBowlRecord)
       /\ rawText = FencedNotFood => parseOut = NotFoodResult(<<"a", " ", "cat">>)

\* C13 witness: the prose-wrapped text went through the second decode
ProseWrappedFoodReached ==
    /\ ParsedText
    /\ rawText = RiceBowlProse
    /\ ~DirectDecodes
    /\ SpanDecodes
    /\ parseOut.type = "food"

\* neither the stripped text nor its brace span yields an object
NothingDecodes ==
    \/ ~IsNonEmptyText
    \/ DirectDecodes /\ ~JSONParse(Stripped).value.obj
    \/ ~DirectDecodes /\ ~SpanDecodes

\* C14: parseAIResponse always returns a result and never throws, and the
\* result is an error for an empty or non-text input, for a text whose direct
\* decode yields a value that is not an object (such as null), and for a text
\* in which neither the stripped text nor the part from its first '{' to its
\* last '}' decodes (no braces, the last '}' before the first '{', ...).
UndecodableYieldsError ==
    ParsedText
    => /\ parseOut.type \in {"food", "not_food", "error"}
       /\ NothingDecodes => parseOut.type = "error"

\* C14 witness: the fenced text null, whose decoded value makes
\* handleParsedResponse throw, ended as an error result
NullTextRejectedReached ==
    /\ ParsedText
    /\ rawText.toks # Stripped
    /\ Stripped = <<Lit(JNull)>>
    /\ parseOut = CouldNotParse

(***************************************************************************)
(* Properties of analyzeFood (SpecAnalyze).                                *)
(***************************************************************************)
ModelIndex(name) == CHOOSE i \in 1..NumModels : GEMINI_MODEL_PREFERENCE[i] = name

MaxAttempts == maxRetries + 1

\* this step sent a request
Sent == requests' # requests

HasTextPayload(resp) ==
    resp.kind = "http" /\ ResponseOk(resp) /\ resp.body = "object" /\ TruthyText(resp.text)

GotFinalPayload(resp) ==
    HasTextPayload(resp) /\ parseAIResponse(resp.text).type \in {"food", "not_food"}

GotParserError(resp) ==
    HasTextPayload(resp) /\ parseAIResponse(resp.text).type = "error"

\* the attempt is used up: same model again while it has attempts left, else
\* the next model, else the analysis ends in the exhaustion error
RetriedThenNextModel ==
    IF attempt + 1 < MaxAttempts
    THEN pc' = "loop" /\ model' = model /\ attempt' = attempt + 1 /\ outcome' = NoOutcome
    ELSE IF model < NumModels
    THEN pc' = "loop" /\ model' = model + 1 /\ attempt' = 0 /\ outcome' = NoOutcome
    ELSE pc' = "done" /\ outcome'.type = "error"
         /\ outcome'.message.prefix = "Analysis failed: "

\* the model is abandoned: the next model, or the end when it was the last
NextModelAtOnce ==
    IF model < NumModels
    THEN pc' = "loop" /\ model' = model + 1 /\ attempt' = 0 /\ outcome' = NoOutcome
    ELSE pc' = "done" /\ outcome'.type = "error"
         /\ outcome'.message.prefix = "Analysis failed: "

\* C2: a text payload that parses to food or not_food ends the analysis with
\* that very outcome and no request follows it; a payload the parser rejects
\* only uses up the attempt.
FinalOutcomeReturnedAtOnce ==
    [][ /\ (Sent /\ GotFinalPayload(lastResponse'))
            => (pc' = "done" /\ outcome' = parseAIResponse(lastResponse'.text))
        /\ (Sent /\ GotParserError(lastResponse'))
            => (outcome' # parseAIResponse(lastResponse'.text) /\ RetriedThenNextModel)
        /\ (pc = "done") => (requests' = requests)
      ]_vars

\* C2 witness: not_food returned on the second attempt of the first model
NotFoodOnSecondAttemptReached ==
    /\ pc = "done"
    /\ requests = <<GEMINI_MODEL_PREFERENCE[1], GEMINI_MODEL_PREFERENCE[1]>>
    /\ lastResponse = HttpOk("object", TextOf(FencedNotFoodText))
    /\ outcome = NotFoodResult(<<"a", " ", "cat">>)

IsNonRetryableStatus(resp) ==
    resp.kind = "http" /\ resp.status >= 400 /\ resp.status <= 499 /\ resp.status # 429

\* C3: a response with a status in 400..499 other than 429 ends the attempts
\* on that model: the next request, if any, goes to the next model.
ClientErrorSkipsToNextModel ==
    [][ (Sent /\ IsNonRetryableStatus(lastResponse')) => NextModelAtOnce ]_vars

IsRetryable(resp) ==
    \/ resp.kind = "transport"
    \/ resp.kind = "http" /\ resp.status = 429
    \/ resp.kind = "http" /\ ~ResponseOk(resp) /\ (resp.status < 400 \/ resp.status > 499)
    \/ resp.kind = "http" /\ ResponseOk(resp) /\ resp.body = "object" /\ ~TruthyText(resp.text)
    \/ GotParserError(resp)

\* requests go to the models in list order, none skipped, none revisited
InListOrder ==
    /\ requests # <<>> => requests[1] = GEMINI_MODEL_PREFERENCE[1]
    /\ \A i \in 1..(Len(requests) - 1) :
          \/ ModelIndex(requests[i + 1]) = ModelIndex(requests[i])
          \/ ModelIndex(requests[i + 1]) = ModelIndex(requests[i]) + 1

\* the first model answered 500 three times, the second answered with food
FallbackScenario ==
    /\ leading500 = 3
    /\ Len(requests) = 4
    /\ lastResponse = HttpOk("object", TextOf(CleanFoodText))

\* C4: a retryable failure (transport failure, 429, a non-success status
\* outside 400..499, an empty payload, a parser error) is retried on the same
\* model until it has had 3 attempts, then the next model is tried; requests
\* follow the list order; after 500 on all 3 attempts of the first model and
\* food from the second, that food is the outcome and 4 requests were sent.
RetryThenFallback ==
    /\ [][ (Sent /\ IsRetryable(lastResponse')) => RetriedThenNextModel ]_vars
    /\ [](InListOrder)
    /\ [](FallbackScenario =>
            /\ pc = "done"
            /\ outcome = parseAIResponse(TextOf(CleanFoodText))
            /\ outcome.type = "food"
            /\ requests = <<GEMINI_MODEL_PREFERENCE[1], GEMINI_MODEL_PREFERENCE[1],
                            GEMINI_MODEL_PREFERENCE[1], GEMINI_MODEL_PREFERENCE[2]>>)

\* C4 witness: the fallback scenario has played out
FallbackScenarioReached ==
    /\ FallbackScenario
    /\ pc = "done"
    /\ outcome.type = "food"
    /\ outcome.data.name = <<"Apple">>

\* the expected key format: trimmed, it starts with AIza and is longer than 30
MatchesKeyFormat(key) ==
    LET k == Trim(key)
    IN  Len(k) > 30 /\ SubSeq(k, 1, 4) = <<"A", "I", "z", "a">>

Started == pc # "idle"

\* C5: with no credential, an unreadable store or a credential of the wrong
\* format, analyzeFood returns an error and sends no request.
BadCredentialNoRequest ==
    (Started /\ (credential.state # "stored" \/ ~MatchesKeyFormat(credential.key)))
    => (pc = "done" /\ outcome.type = "error" /\ requests = <<>>)

\* C5 witness: a key that is 31 characters long only with its trailing blank
PaddedShortKeyRejected ==
    /\ credential = Stored(KeyPrefix \o Fill(26) \o <<" ">>)
    /\ pc = "done"
    /\ outcome = ErrorResult(Msg("Invalid API key format."))
    /\ requests = <<>>

Exhausted == pc = "done" /\ outcome.type = "error" /\ requests # <<>>

\* C6: when every model and attempt is used up, the error returned is
\* 'Analysis failed: ' followed by the message recorded by the last attempt.
ExhaustionReportsLastError ==
    /\ Exhausted =>
          /\ outcome.message.prefix = "Analysis failed: "
          /\ outcome.message.text = Classify(lastResponse).msg.text
          /\ outcome.message.n = Classify(lastResponse).msg.n
          /\ outcome.message.text # ""
    /\ (pc = "done" /\ requests # <<>> /\ outcome.type \notin {"food", "not_food"})
          => (Exhausted /\ requests[Len(requests)] = GEMINI_MODEL_PREFERENCE[NumModels])

\* C6 witness: all 15 attempts failed, the last one with a bare status 500
ExhaustedWithStatusReached ==
    /\ Exhausted
    /\ Len(requests) = NumModels * MaxAttempts
    /\ lastResponse = HttpError(500, "unreadable", "")
    /\ outcome.message = [prefix |-> "Analysis failed: ", text |-> "Status ", n |-> 500]

\* C7: whatever the responses, analyzeFood ends with exactly one of food,
\* not_food, error; no exception leaves it, and it is never stuck before.
AlwaysAnOutcome ==
    /\ outcome.type # "throw"
    /\ pc = "done" <=> outcome.type \in {"food", "not_food", "error"}
    /\ pc # "done" => (outcome = NoOutcome /\ ENABLED NextAnalyze)

\* C7 witness: the last response was a 403 whose body is the JSON value null
NullErrorBodySurvived ==
    /\ pc = "done"
    /\ lastResponse = HttpError(403, "null", "")
    /\ outcome.type = "error"

RequestsTo(name) == Cardinality({i \in 1..Len(requests) : requests[i] = name})

\* C8: at most 3 requests per model and 3 x (number of models) in all, no
\* model revisited, and the analysis has ended once the budget is used up.
RequestBudget ==
    /\ \A i \in 1..NumModels : RequestsTo(GEMINI_MODEL_PREFERENCE[i]) <= 3
    /\ Len(requests) <= 3 * NumModels
    /\ \A i, j \in 1..Len(requests) :
          i < j => ModelIndex(requests[i]) <= ModelIndex(requests[j])
    /\ Len(requests) = 3 * NumModels => pc = "done"
    /\ pc = "loop" => Len(requests) < 3 * NumModels

\* C8 witness: the whole budget of 15 requests was spent
WholeBudgetSpent ==
    /\ pc = "done"
    /\ Len(requests) = 15
    /\ RequestsTo(GEMINI_MODEL_PREFERENCE[NumModels]) = 3

(***************************************************************************)
(* SpecLedger: useDailyNutrition.  A mutation is two steps: the call, which *)
(* builds the new entry from the entry and the date of the render it was   *)
(* called in and starts save(), and the completion of AsyncStorage.setItem, *)
(* which on success writes the key and sets the state.  A load is started  *)
(* by the effect on mount, by a change of date and by reload; it completes *)
(* when AsyncStorage.getItem settles.  Completions come in any order.      *)
(***************************************************************************)
MaxOps == 4

MaxPending == 2

\* what the screens pass to addMeal
\* (the manual-entry screen passes its own timestamp; a candidate may carry an
\* id as well: <<>> stands for a member the candidate does not have)
MealInputs ==
    { [id |-> <<>>, timestamp |-> <<>>, name |-> <<"Oats">>, calories |-> 1500,
       protein |-> 50, carbs |-> 270, fats |-> 30],
      [id |-> createMealId(1), timestamp |-> <<"T", "manual">>, name |-> <<"Egg">>,
       calories |-> 780, protein |-> 63, carbs |-> 6, fats |-> 53],
      [id |-> <<>>, timestamp |-> <<"T", "manual">>, name |-> <<"Adj">>,
       calories |-> -505, protein |-> 0, carbs |-> -15, fats |-> 5] }

\* what the edit screen passes to updateMeal: name and the four numbers
EditOf(name, calories, protein, carbs, fats) ==
    [has |-> {"name", "calories", "protein", "carbs", "fats"},
     val |-> [id |-> <<>>, timestamp |-> <<>>, name |-> name, calories |-> calories,
              protein |-> protein, carbs |-> carbs, fats |-> fats]]

\* a Partial<Meal> with the calories only
CaloriesOnly(tenths) ==
    [has |-> {"calories"},
     val |-> [id |-> <<>>, timestamp |-> <<>>, name |-> <<>>, calories |-> tenths,
              protein |-> 0, carbs |-> 0, fats |-> 0]]

NoUpdates == [has |-> {}, val |-> NoMeal]

UpdateInputs ==
    { EditOf(<<"Bowl">>, 2000, 80, 300, 45),
      CaloriesOnly(-100) }

WaterInputs == {2500}

RemoveAt(seq, i) == SubSeq(seq, 1, i - 1) \o SubSeq(seq, i + 1, Len(seq))

\* the identifiers createMealId has produced so far
IssuedIds == { createMealId(k) : k \in 1..(nextId - 1) }

\* how many identifiers or random suffixes a load of the cell generates
NumGenerated(cell, readOk) ==
    IF ~readOk \/ cell.state # "text" \/ ~cell.value.obj \/ ~cell.value.isArray THEN 0
    ELSE Cardinality({ i \in 1..Len(cell.value.meals) :
                         ~cell.value.meals[i].obj \/ ~NonBlankText(cell.value.meals[i].id) })

\* await save(newData), up to the await of AsyncStorage.setItem
\* (result: what the mutation returns once save has settled; mealId and
\* updates: the arguments of the call, kept with it)
StartSave(newData, op, result, mealId, updates) ==
    /\ clock <= MaxOps
    /\ Len(saves) < MaxPending
    /\ saves' = Append(saves, [key |-> date, newData |-> newData, op |-> op,
                               result |-> result, mealId |-> mealId,
                               updates |-> updates])
    /\ clock' = clock + 1
    /\ UNCHANGED <<storage, date, data, loading, loads, origin, returned>>

AddMealCall(meal) ==
    /\ StartSave(AddMealData(data, NewMeal(meal, createMealId(nextId), ISOString(clock))),
                 "addMeal", NewMeal(meal, createMealId(nextId), ISOString(clock)),
                 <<>>, NoUpdates)
    /\ nextId' = nextId + 1
    /\ UNCHANGED <<parsedVars, analyzeVars, weekVars, appVars>>

UpdateMealCall(mealId, updates) ==
    /\ StartSave(UpdateMealData(data, mealId, updates), "updateMeal", NoMeal, mealId, updates)
    /\ UNCHANGED nextId
    /\ UNCHANGED <<parsedVars, analyzeVars, weekVars, appVars>>

DeleteMealCall(mealId) ==
    /\ StartSave(DeleteMealData(data, mealId), "deleteMeal", NoMeal, mealId, NoUpdates)
    /\ UNCHANGED nextId
    /\ UNCHANGED <<parsedVars, analyzeVars, weekVars, appVars>>

AddWaterCall(ml) ==
    /\ StartSave(AddWaterData(data, ml), "addWater", NoMeal, <<>>, NoUpdates)
    /\ UNCHANGED nextId
    /\ UNCHANGED <<parsedVars, analyzeVars, weekVars, appVars>>

\* what the mutation hands back after `await save(newData)`: save never
\* rejects, so the call resolves to its result either way
Settled(call, written) ==
    [n |-> returned.n + 1, op |-> call.op, threw |-> FALSE, value |-> call.result,
     promised |-> call.result, written |-> written]

\* AsyncStorage.setItem resolved: the key is written, then setData(newData)
SaveResolved(i) ==
    /\ i \in 1..Len(saves)
    /\ storage' = [storage EXCEPT ![saves[i].key] = StoredText(Stringify(saves[i].newData))]
    /\ data' = saves[i].newData
    /\ origin' = [op |-> saves[i].op, key |-> saves[i].key, read |-> "none"]
    /\ returned' = Settled(saves[i], TRUE)
    /\ saves' = RemoveAt(saves, i)
    /\ UNCHANGED <<date, loading, loads, nextId, clock>>
    /\ UNCHANGED <<parsedVars, analyzeVars, weekVars, appVars>>

\* a save that sets the state before the write is known to have succeeded
SaveRejectedOptimistic(i) ==
    /\ i \in 1..Len(saves)
    /\ data' = saves[i].newData
    /\ returned' = Settled(saves[i], FALSE)
    /\ saves' = RemoveAt(saves, i)
    /\ UNCHANGED <<storage, date, loading, loads, nextId, clock, origin>>
    /\ UNCHANGED <<parsedVars, analyzeVars, weekVars, appVars>>

\* AsyncStorage.setItem rejected: logged, nothing else
SaveRejected(i) ==
    /\ i \in 1..Len(saves)
    /\ returned' = Settled(saves[i], FALSE)
    /\ saves' = RemoveAt(saves, i)
    /\ UNCHANGED <<storage, date, data, loading, loads, nextId, clock, origin>>
    /\ UNCHANGED <<parsedVars, analyzeVars, weekVars, appVars>>

\* void load(), up to the await of AsyncStorage.getItem
StartLoad(key) ==
    /\ Len(loads) < MaxPending
    /\ loads' = Append(loads, key)
    /\ UNCHANGED <<storage, data, loading, saves, nextId, origin, returned>>

\* changeDate: a render with another date, whose effect starts a load
ChangeDate(d) ==
    /\ clock <= MaxOps
    /\ d # date
    /\ date' = d
    /\ StartLoad(d)
    /\ clock' = clock + 1
    /\ UNCHANGED <<parsedVars, analyzeVars, weekVars, appVars>>

\* reload
Reload ==
    /\ clock <= MaxOps
    /\ StartLoad(date)
    /\ clock' = clock + 1
    /\ UNCHANGED date
    /\ UNCHANGED <<parsedVars, analyzeVars, weekVars, appVars>>

\* AsyncStorage.getItem settled (readOk: resolved): setData, setLoading(false)
LoadSettled(i, readOk) ==
    /\ i \in 1..Len(loads)
    /\ data' = LoadedEntry(storage[loads[i]], readOk, nextId, clock)
    /\ nextId' = nextId + NumGenerated(storage[loads[i]], readOk)
    /\ loading' = FALSE
    /\ origin' = [op |-> "load", key |-> loads[i], read |-> ReadOf(storage[loads[i]], readOk)]
    /\ loads' = RemoveAt(loads, i)
    /\ UNCHANGED <<storage, date, saves, clock, returned>>
    /\ UNCHANGED <<parsedVars, analyzeVars, weekVars, appVars>>

\* what the device holds when the app starts: nothing, or an undecodable
\* text under the first day
InitialStorages ==
    { [d \in DayKeys |-> Missing],
      [d \in DayKeys |-> IF d = FirstDay THEN Garbage ELSE Missing] }

\* after the first render: the load of the effect in flight
InitLedger ==
    /\ ParsedIdle
    /\ AnalyzeIdle
    /\ storage \in InitialStorages
    /\ date = FirstDay
    /\ data = initialDailyNutrition
    /\ loading = TRUE
    /\ saves = <<>>
    /\ loads = <<FirstDay>>
    /\ nextId = 1
    /\ clock = 1
    /\ origin = [op |-> "initial", key |-> FirstDay, read |-> "none"]
    /\ returned = NothingReturned
    /\ WeekIdle
    /\ AppIdle

NextLedger ==
    \/ \E meal \in MealInputs : AddMealCall(meal)
    \/ \E mealId \in IssuedIds, updates \in UpdateInputs : UpdateMealCall(mealId, updates)
    \/ \E mealId \in IssuedIds : DeleteMealCall(mealId)
    \/ \E ml \in WaterInputs : AddWaterCall(ml)
    \/ \E i \in 1..MaxPending : SaveResolved(i)
    \/ \E i \in 1..MaxPending : SaveRejected(i)
    \/ \E d \in Days : ChangeDate(d)
    \/ Reload
    \/ \E i \in 1..MaxPending, readOk \in BOOLEAN : LoadSettled(i, readOk)

SpecLedger == InitLedger /\ [][NextLedger]_vars

(***************************************************************************)
(* SpecLoads: the two loaders over what the device already holds.          *)
(* useDailyNutrition.load as in SpecLedger; useWeekData.load reads its     *)
(* seven keys one await at a time.  A week load starts for the date of the *)
(* screen once the one before it has finished.                             *)
(***************************************************************************)
\* an entry an earlier session stored
StoredSample ==
    StoredText(Stringify(AddMealData(initialDailyNutrition,
        [id |-> <<"uuid-", "9">>, timestamp |-> <<"T", "0">>, name |-> <<"Oats">>,
         calories |-> 1500, protein |-> 50, carbs |-> 270, fats |-> 30])))

\* an entry whose stored totals disagree with its meals and whose meals are
\* malformed: an element that is no object, and a meal without id or
\* timestamp, with a blank name, calories as text, negative protein, carbs
\* null and no fats
StoredSkewed ==
    StoredText([obj |-> TRUE, calories |-> JNum(9990), protein |-> JStr(<<"7">>),
                carbs |-> JNum(-50), fats |-> JUndef, isArray |-> TRUE,
                meals |-> <<NonObjectMeal,
                            [obj |-> TRUE, id |-> JUndef, timestamp |-> JNull,
                             name |-> JStr(<<" ">>), calories |-> JStr(<<"1", "2">>),
                             protein |-> JNum(-30), carbs |-> JNull, fats |-> JUndef]>>,
                waterIntake |-> JStr(<<"9">>)])

\* the oldest day of the first week and the two dates of the screen hold
\* nothing, an undecodable text or a stored entry (the second date possibly
\* the malformed one); the other days nothing
LoadStorages ==
    { [d \in DayKeys |-> IF d = Calendar[1] THEN a
                         ELSE IF d = Calendar[7] THEN b
                         ELSE IF d = Calendar[8] THEN c
                         ELSE Missing] :
        a \in {Missing, Garbage, StoredSample}, b \in {Missing, Garbage, StoredSample},
        c \in {Missing, Garbage, StoredSample, StoredSkewed} }

\* the effect of useWeekData, or reload: the load up to its first await
WeekStart ==
    /\ weekPos = 0
    /\ clock <= MaxOps
    /\ clock' = clock + 1
    /\ weekEnd' = date
    /\ weekPos' = 1
    /\ weekDays' = <<>>
    /\ UNCHANGED <<weekData, weekLoading>>
    /\ UNCHANGED <<storage, date, data, loading, saves, loads, nextId, origin, returned>>
    /\ UNCHANGED <<parsedVars, analyzeVars, appVars>>

\* the read of one day failed: the catch logs, the finally clears loading
WeekAborted ==
    /\ weekPos' = 0
    /\ weekDays' = <<>>
    /\ weekLoading' = FALSE
    /\ UNCHANGED <<weekEnd, weekData, nextId>>

\* the read of one day gave `entry`: pushed, and after the seventh, setWeekData
WeekPushed(entry, generated) ==
    /\ nextId' = nextId + generated
    /\ IF weekPos = 7
       THEN /\ weekData' = Append(weekDays, entry)
            /\ weekPos' = 0
            /\ weekDays' = <<>>
            /\ weekLoading' = FALSE
       ELSE /\ weekDays' = Append(weekDays, entry)
            /\ weekPos' = weekPos + 1
            /\ UNCHANGED <<weekData, weekLoading>>
    /\ UNCHANGED weekEnd

\* one turn of the loop of useWeekData.load: AsyncStorage.getItem settled
WeekRead(readOk) ==
    /\ weekPos \in 1..7
    /\ IF ReadOf(storage[WeekKeys(weekEnd)[weekPos]], readOk) \in {"rejected", "undecodable"}
       THEN WeekAborted
       ELSE WeekPushed(LoadedEntry(storage[WeekKeys(weekEnd)[weekPos]], readOk, nextId, clock),
                       NumGenerated(storage[WeekKeys(weekEnd)[weekPos]], readOk))
    /\ UNCHANGED <<storage, date, data, loading, saves, loads, clock, origin, returned>>
    /\ UNCHANGED <<parsedVars, analyzeVars, appVars>>

\* after the first render: both effects have started their loads
InitLoads ==
    /\ ParsedIdle
    /\ AnalyzeIdle
    /\ storage \in LoadStorages
    /\ date = FirstDay
    /\ data = initialDailyNutrition
    /\ loading = TRUE
    /\ saves = <<>>
    /\ loads = <<FirstDay>>
    /\ nextId = 1
    /\ clock = 1
    /\ origin = [op |-> "initial", key |-> FirstDay, read |-> "none"]
    /\ returned = NothingReturned
    /\ weekEnd = FirstDay
    /\ weekPos = 1
    /\ weekDays = <<>>
    /\ weekData = <<>>
    /\ weekLoading = TRUE
    /\ AppIdle

NextLoads ==
    \/ \E d \in Days : ChangeDate(d)
    \/ Reload
    \/ \E i \in 1..MaxPending, readOk \in BOOLEAN : LoadSettled(i, readOk)
    \/ WeekStart
    \/ \E readOk \in BOOLEAN : WeekRead(readOk)

SpecLoads == InitLoads /\ [][NextLoads]_vars

\* the step settles a load of useDailyNutrition that found nothing stored
SettledOnMissing ==
    /\ Len(loads') = Len(loads) - 1
    /\ origin'.op = "load"
    /\ origin'.read = "missing"

\* the step is a turn of the week load on a key that holds nothing
WeekTurnOnMissing ==
    /\ weekPos \in 1..7
    /\ weekPos' # weekPos
    /\ storage[WeekKeys(weekEnd)[weekPos]] = Missing

\* what the turn pushed is the empty entry (or the turn failed and pushed nothing)
WeekPushedEmpty ==
    \/ weekPos' = 0 /\ weekData' = weekData
    \/ weekPos' = 0 /\ weekData' = Append(weekDays, initialDailyNutrition)
    \/ weekPos' # 0 /\ weekDays' = Append(weekDays, initialDailyNutrition)

\* C18: a load of a day with nothing stored yields the entry with zero
\* calories, protein, carbs and fats, no meals and zero water, and no step of
\* load or of the week load changes what is stored: keys and values are the
\* same before and after.
LoadsNeverWrite ==
    [][/\ storage' = storage
       /\ SettledOnMissing => data' = initialDailyNutrition
       /\ WeekTurnOnMissing => WeekPushedEmpty]_vars

\* C18 witness: the day load found nothing for its key while another day holds
\* an entry, the week load came through with an empty first day, and the
\* keys that held nothing still hold nothing
MissingDayLoadedReached ==
    /\ origin.op = "load"
    /\ origin.read = "missing"
    /\ data = initialDailyNutrition
    /\ storage[origin.key] = Missing
    /\ \E d \in DayKeys : storage[d].state = "text"
    /\ Len(weekData) = 7
    /\ weekData[1] = initialDailyNutrition
    /\ storage[WeekKeys(weekEnd)[1]] = Missing

(***************************************************************************)
(* SpecApp: the screen (App) over useDailyNutrition.  analyzeFoodImage is  *)
(* three steps: the call, up to the await of analyzeFood; the return of    *)
(* analyzeFood, up to the await of addMeal; and the rest once the save has *)
(* settled.  It works with the addMeal of the render it was called in, so  *)
(* with that render's entry and date.  The await of reloadWeekData before  *)
(* the finally block touches the state of useWeekData only (SpecLoads).    *)
(***************************************************************************)
\* what analyzeFood may return: food, not_food, error
AnalysisOutcomes ==
    { parseAIResponse(TextOf(CleanFoodText)),
      parseAIResponse(TextOf(FencedNotFoodText)),
      ErrorResult(Msg("Invalid API key format.")) }

\* what the manual-entry screen passes to addMeal
ManualMeals ==
    { [id |-> <<>>, timestamp |-> <<"T", "manual">>, name |-> <<"Toast">>,
       calories |-> 800, protein |-> 30, carbs |-> 150, fats |-> 10] }

\* { ...result.data, mealType }: the candidate analyzeFoodImage passes to addMeal
MealOfData(d) ==
    [id |-> <<>>, timestamp |-> <<>>, name |-> d.name, calories |-> d.calories,
     protein |-> d.protein, carbs |-> d.carbs, fats |-> d.fats]

\* an analyzeFoodImage that logs whatever is not an error
AddsMealUnlessError(result) == result.type # "error"

\* analyzeFoodImage reaches addMeal: neither of the two early returns is taken
AddsMeal(result) == result.type = "food"

\* pickImage, down to analyzeFoodImage: setAnalyzing(true), await analyzeFood
\* (the Pressables that call it carry no disabled prop)
PickImage ==
    /\ clock <= MaxOps
    /\ Len(analyses) < MaxPending
    /\ analyses' = Append(analyses, [key |-> date, snap |-> data,
                                     phase |-> "analyzeFood", mealId |-> <<>>])
    /\ analyzing' = TRUE
    /\ clock' = clock + 1
    /\ UNCHANGED deleteIssued
    /\ UNCHANGED <<storage, date, data, loading, saves, loads, nextId, origin, returned>>
    /\ UNCHANGED <<parsedVars, analyzeVars, weekVars>>

\* the addMeal of the render the analysis was started in, up to the await of
\* AsyncStorage.setItem
AddMealOfRender(call, meal) ==
    /\ Len(saves) < MaxPending
    /\ saves' = Append(saves,
                  [key |-> call.key,
                   newData |-> AddMealData(call.snap,
                                  NewMeal(meal, createMealId(nextId), ISOString(clock))),
                   op |-> "addMeal",
                   result |-> NewMeal(meal, createMealId(nextId), ISOString(clock)),
                   mealId |-> <<>>, updates |-> NoUpdates])
    /\ nextId' = nextId + 1

\* analyzeFood returned: an alert and the finally block, or addMeal
AnalysisReturned(i, result) ==
    /\ i \in 1..Len(analyses)
    /\ analyses[i].phase = "analyzeFood"
    /\ outcome' = result
    /\ IF AddsMeal(result)
       THEN /\ AddMealOfRender(analyses[i], MealOfData(result.data))
            /\ analyses' = [analyses EXCEPT ![i].phase = "addMeal",
                                            ![i].mealId = createMealId(nextId)]
            /\ UNCHANGED analyzing
       ELSE /\ analyses' = RemoveAt(analyses, i)
            /\ analyzing' = FALSE
            /\ UNCHANGED <<saves, nextId>>
    /\ UNCHANGED deleteIssued
    /\ UNCHANGED <<storage, date, data, loading, loads, clock, origin, returned>>
    /\ UNCHANGED <<credential, pc, model, attempt, lastErrorMessage, requests,
                   leading500, lastResponse>>
    /\ UNCHANGED <<parsedVars, weekVars>>

\* addMeal has settled: the alert, then the finally block: setAnalyzing(false)
AnalysisFinished(i) ==
    /\ i \in 1..Len(analyses)
    /\ analyses[i].phase = "addMeal"
    /\ \A j \in 1..Len(saves) : saves[j].result.id # analyses[i].mealId
    /\ analyses' = RemoveAt(analyses, i)
    /\ analyzing' = FALSE
    /\ UNCHANGED deleteIssued
    /\ UNCHANGED <<parsedVars, analyzeVars, ledgerVars, weekVars>>

\* handleDeleteMeal, the Delete button of its alert: deleteMeal(meal.id)
HandleDeleteMeal(mealId) ==
    /\ StartSave(DeleteMealData(data, mealId), "deleteMeal", NoMeal, mealId, NoUpdates)
    /\ deleteIssued' = deleteIssued \cup {mealId}
    /\ UNCHANGED <<nextId, analyzing, analyses>>
    /\ UNCHANGED <<parsedVars, analyzeVars, weekVars>>

\* after the first render of the screen: nothing stored, the load in flight
InitApp ==
    /\ ParsedIdle
    /\ AnalyzeIdle
    /\ storage = [d \in DayKeys |-> Missing]
    /\ date = FirstDay
    /\ data = initialDailyNutrition
    /\ loading = TRUE
    /\ saves = <<>>
    /\ loads = <<FirstDay>>
    /\ nextId = 1
    /\ clock = 1
    /\ origin = [op |-> "initial", key |-> FirstDay, read |-> "none"]
    /\ returned = NothingReturned
    /\ WeekIdle
    /\ AppIdle

NextApp ==
    \/ PickImage
    \/ \E i \in 1..MaxPending, result \in AnalysisOutcomes : AnalysisReturned(i, result)
    \/ \E i \in 1..MaxPending : AnalysisFinished(i)
    \/ \E meal \in ManualMeals : AddMealCall(meal)
    \/ \E mealId \in IssuedIds : UpdateMealCall(mealId, EditOf(<<"Bowl">>, 2000, 80, 300, 45))
    \/ \E mealId \in IssuedIds : HandleDeleteMeal(mealId)
    \/ \E i \in 1..MaxPending : SaveResolved(i)
    \/ \E i \in 1..MaxPending : SaveRejected(i)
    \/ \E d \in Days : ChangeDate(d)
    \/ \E i \in 1..MaxPending, readOk \in BOOLEAN : LoadSettled(i, readOk)

SpecApp == InitApp /\ [][NextApp]_vars

(***************************************************************************)
(* Properties of the ledger.                                               *)
(***************************************************************************)
RECURSIVE SumUpTo(_, _, _)
SumUpTo(meals, field, n) ==
    IF n = 0 THEN 0 ELSE SumUpTo(meals, field, n - 1) + meals[n][field]

\* each total of the entry is the sum of that field over its meal list
TotalsMatchMeals(entry) ==
    \A field \in {"calories", "protein", "carbs", "fats"} :
        entry[field] = SumUpTo(entry.meals, field, Len(entry.meals))

MealOps == {"addMeal", "updateMeal", "deleteMeal"}

\* C1: whenever the entry in memory is the result of an addMeal, updateMeal
\* or deleteMeal, each of its calories, protein, carbs and fats is the sum of
\* that field over the meals in its list, and it is the entry persisted under
\* the key of the operation.
TotalsAreSumsAfterMealOps ==
    origin.op \in MealOps =>
        /\ TotalsMatchMeals(data)
        /\ storage[origin.key] = StoredText(Stringify(data))

\* two meals were added, the second was edited and a delete left it alone
\* in the entry
EditedMealLeftAfterDeleteReached ==
    /\ origin.op = "deleteMeal"
    /\ Len(data.meals) = 1
    /\ data.meals[1].id = createMealId(2)
    /\ data.meals[1].name = <<"Bowl">>
    /\ data.fats = 45

\* the call a step has just started, when the step is the call of op
CallStarted(op) == Len(saves') = Len(saves) + 1 /\ saves'[Len(saves')].op = op

StartedCall == saves'[Len(saves')]

\* the step settles a mutation of kind op
SettledOp(op) == returned'.n = returned.n + 1 /\ returned'.op = op

DistinctIds(meals) ==
    \A i, j \in 1..Len(meals) : meals[i].id = meals[j].id => i = j

\* the new meal has the next generated id, unused so far, and the time of the
\* call, and the entry to save is the current list with the new meal at its end
AppendsFreshMeal(call) ==
    /\ call.result.id = createMealId(nextId)
    /\ call.result.id \notin IssuedIds
    /\ \A i \in 1..Len(data.meals) : data.meals[i].id # call.result.id
    /\ call.result.timestamp = ISOString(clock)
    /\ call.newData.meals = Append(data.meals, call.result)

\* C15: addMeal gives the candidate a freshly generated id and the current
\* timestamp, whatever id or timestamp the candidate carries, appends it as
\* the last element with the existing meals and their order unchanged, and
\* returns the created meal; the ids of the meals of an entry stay pairwise
\* distinct.
AddMealAppendsFreshMeal ==
    [][/\ CallStarted("addMeal") => AppendsFreshMeal(StartedCall)
       /\ (SettledOp("addMeal") /\ returned'.written)
          => returned'.value = data'.meals[Len(data'.meals)]
       /\ DistinctIds(data'.meals)]_vars

\* C15 witness: a candidate that carried the id of the first meal and a
\* timestamp of its own was added second, with another id and the call's time
CandidateIdOverriddenReached ==
    /\ origin.op = "addMeal"
    /\ Len(data.meals) = 2
    /\ data.meals[1].id = createMealId(1)
    /\ data.meals[2].name = <<"Egg">>
    /\ data.meals[2].id = createMealId(2)
    /\ data.meals[2].timestamp # <<"T", "manual">>
    /\ returned.value = data.meals[2]

MealFields == {"id", "timestamp", "name", "calories", "protein", "carbs", "fats"}

\* meal `after` is meal `before` with exactly the supplied members replaced
OnlySuppliedReplaced(before, after, updates) ==
    \A f \in MealFields :
        after[f] = IF f \in updates.has THEN updates.val[f] ELSE before[f]

HasMeal(meals, mealId) == \E i \in 1..Len(meals) : meals[i].id = mealId

\* C16: updateMeal replaces only the supplied fields of the meal whose id
\* matches and leaves every other meal, the order and the water counter as
\* they were; when no meal matches, the entry it produces (meals, totals,
\* water) is the entry before the call.
UpdateTouchesOnlyMatch ==
    [][CallStarted("updateMeal")
       => /\ Len(StartedCall.newData.meals) = Len(data.meals)
          /\ \A i \in 1..Len(data.meals) :
                IF data.meals[i].id = StartedCall.mealId
                THEN OnlySuppliedReplaced(data.meals[i], StartedCall.newData.meals[i],
                                          StartedCall.updates)
                ELSE StartedCall.newData.meals[i] = data.meals[i]
          /\ StartedCall.newData.waterIntake = data.waterIntake
          /\ ~HasMeal(data.meals, StartedCall.mealId) => StartedCall.newData = data]_vars

\* C17: deleteMeal removes the meal whose id matches and keeps every other
\* meal in its order, with the water counter unchanged; when no meal has the
\* id, meals, totals and water are unchanged.
DeleteRemovesOnlyMatch ==
    [][CallStarted("deleteMeal")
       => /\ \A k \in 1..Len(data.meals) :
                data.meals[k].id = StartedCall.mealId
                => StartedCall.newData.meals = RemoveAt(data.meals, k)
          /\ StartedCall.newData.waterIntake = data.waterIntake
          /\ ~HasMeal(data.meals, StartedCall.mealId) => StartedCall.newData = data]_vars

\* C19: after a load whose read was rejected or whose stored text could not
\* be decoded, the entry in memory is the empty entry and loading is cleared;
\* the load has completed like any other.
FailedReadYieldsEmptyEntry ==
    (origin.op = "load" /\ origin.read \in {"rejected", "undecodable"})
    => data = initialDailyNutrition /\ ~loading

\* C19 witness: a day with meals in memory was reloaded, the read was
\* rejected, and the entry in memory is empty while the stored one is not
RejectedReadReached ==
    /\ origin.op = "load"
    /\ origin.read = "rejected"
    /\ storage[origin.key].state = "text"
    /\ storage[origin.key].value.meals # <<>>
    /\ data = initialDailyNutrition
    /\ ~loading

\* C20: when the write of a mutation fails, the caller is told so: the call
\* ends with an exception or with a value other than the one it gives when
\* the write succeeds.
FailedWriteIsReported ==
    (returned.n > 0 /\ ~returned.written)
    => (returned.threw \/ returned.value # returned.promised)

\* what a load of the key of the last mutation gives right after it
LoadedBack == LoadedEntry(storage[origin.key], TRUE, nextId, clock)

\* C22: when the entry in memory is the one addMeal has just written, loading
\* the same day back gives the same meals in the same order, and totals
\* equal to calculateMealTotals over the loaded meals.
AddMealRoundTrip ==
    origin.op = "addMeal" =>
        /\ LoadedBack.meals = data.meals
        /\ EntryOf(calculateMealTotals(LoadedBack.meals), LoadedBack.meals,
                   LoadedBack.waterIntake) = LoadedBack

\* the ids of the meals persisted under a key
MealIdsAt(key) ==
    IF storage[key].state = "text"
    THEN { storage[key].value.meals[i].id.s : i \in 1..Len(storage[key].value.meals) }
    ELSE {}

\* the step is the call of a mutation
MutationStarted == Len(saves') = Len(saves) + 1

\* C26: a mutation is persisted under the key of the day it was issued for,
\* and the entry it persists holds only meals of that day's persisted entry
\* and the meal the mutation itself adds, also while the load of a newly
\* selected day is still in flight.
MutationsStayInTheirDay ==
    [][MutationStarted =>
        /\ StartedCall.key = date
        /\ \A i \in 1..Len(StartedCall.newData.meals) :
              StartedCall.newData.meals[i].id \in MealIdsAt(date) \cup {StartedCall.result.id}]_vars

\* C29: once no load is in flight, the entry a load left in memory is the
\* normalized persisted entry of the date now selected, not that of a date
\* selected earlier whose load finished later.
LoadedEntryIsOfSelectedDate ==
    (loads = <<>> /\ origin.op = "load" /\ origin.read # "rejected")
    => data = LoadedEntry(storage[date], TRUE, nextId, clock)

\* the step settles a mutation whose write failed
WriteFailed == returned'.n = returned.n + 1 /\ ~returned'.written

\* C30: a mutation whose write fails leaves the entry in memory as it was;
\* the entry in memory changes only to an entry just persisted or just
\* loaded.
FailedWriteLeavesEntry ==
    [][/\ WriteFailed => data' = data
       /\ data' # data =>
            \/ /\ returned'.n = returned.n + 1
               /\ returned'.written
               /\ storage'[origin'.key] = StoredText(Stringify(data'))
            \/ /\ Len(loads') = Len(loads) - 1
               /\ data' = LoadedEntry(storage[origin'.key], origin'.read # "rejected",
                                      nextId, clock)]_vars

\* C30 witness: the write of a second meal failed; the entry in memory is
\* still the persisted one with the first meal only
SecondMealWriteFailedReached ==
    /\ returned.op = "addMeal"
    /\ ~returned.written
    /\ returned.n > 0
    /\ Len(data.meals) = 1
    /\ returned.value.id # data.meals[1].id
    /\ storage[date] = StoredText(Stringify(data))

(***************************************************************************)
(* Properties of the loaders (SpecLoads).                                  *)
(***************************************************************************)
\* an entry without the identifiers and timestamps of its meals
Anonymous(entry) ==
    [entry EXCEPT !.meals = [i \in 1..Len(entry.meals) |->
                                [entry.meals[i] EXCEPT !.id = <<>>, !.timestamp = <<>>]]]

\* the step ends a week load
EndsWeekLoad == weekPos \in 1..7 /\ weekPos' = 0

\* what load gives for the k-th day of the week when its read succeeds
DayResult(k) == LoadedEntry(storage[WeekKeys(weekEnd)[k]], TRUE, 1, 1)

\* C21: a week load ends with exactly 7 entries, oldest day first, entry k
\* the load result of day endDate - (7 - k): the days already read keep
\* their entries, a day that holds nothing or cannot be read or decoded has
\* the empty entry at its position, and every other day has its own entry.
WeekIsSevenIndependentDays ==
    [][EndsWeekLoad =>
        /\ Len(weekData') = 7
        /\ \A k \in 1..Len(weekDays) : weekData'[k] = weekDays[k]
        /\ \A k \in 1..7 :
              IF ReadOf(storage[WeekKeys(weekEnd)[k]], TRUE) = "decoded"
              THEN \/ Anonymous(weekData'[k]) = Anonymous(DayResult(k))
                   \/ weekData'[k] = initialDailyNutrition
              ELSE weekData'[k] = initialDailyNutrition]_vars

\* the entry in memory was set by a load whose read gave a decodable text
LoadedDecoded == origin.op = "load" /\ origin.read = "decoded"

\* C23: the entry a load produces, whatever the key holds (stored totals that
\* disagree with the stored meals, negative or malformed nutrient values),
\* has each of calories, protein, carbs and fats equal to the sum of that
\* field over its own meal list.
LoadedTotalsAreSums == origin.op = "load" => TotalsMatchMeals(data)

\* the stored meal list of the key the last load read
StoredMeals ==
    IF storage[origin.key].value.obj /\ storage[origin.key].value.isArray
    THEN storage[origin.key].value.meals
    ELSE <<>>

\* loaded meal i is stored element i: its own id and trimmed name when it has
\* them, the defaults when it is malformed
KeepsElement(i) ==
    /\ (StoredMeals[i].obj /\ NonBlankText(StoredMeals[i].id))
          => data.meals[i].id = StoredMeals[i].id.s
    /\ (StoredMeals[i].obj /\ NonBlankText(StoredMeals[i].name))
          => data.meals[i].name = Trim(StoredMeals[i].name.s)
    /\ (~StoredMeals[i].obj \/ ~NonBlankText(StoredMeals[i].name))
          => data.meals[i].name = DefaultMealName(i - 1)
    /\ ~StoredMeals[i].obj
          => \A f \in {"calories", "protein", "carbs", "fats"} : data.meals[i][f] = 0
    /\ StoredMeals[i].obj
          => \A f \in {"calories", "protein", "carbs", "fats"} :
                ~(IsFiniteNumber(StoredMeals[i][f]) \/ IsString(StoredMeals[i][f]))
                   => data.meals[i][f] = 0

WellFormedMeal(m) ==
    /\ m.id # <<>>
    /\ Trim(m.name) # <<>>
    /\ \A f \in {"calories", "protein", "carbs", "fats"} : m[f] >= 0

\* C24: a load drops no stored meal-list element: the loaded list is as long
\* as the stored one and in its order, a malformed element is there with
\* defaulted fields, and every loaded meal has a non-empty id, a non-empty
\* name and non-negative calories, protein, carbs and fats.
LoadKeepsEveryMeal ==
    LoadedDecoded =>
        /\ Len(data.meals) = Len(StoredMeals)
        /\ \A i \in 1..Len(StoredMeals) : KeepsElement(i)
        /\ \A i \in 1..Len(data.meals) : WellFormedMeal(data.meals[i])

\* C24 witness: the malformed entry was loaded: the element that is no object
\* came back as Meal 1, the meal without id and name as Meal 2 with a
\* synthesized id, calories 12 read from text and protein raised to 0
MalformedMealsKeptReached ==
    /\ LoadedDecoded
    /\ storage[origin.key] = StoredSkewed
    /\ Len(data.meals) = 2
    /\ data.meals[1].name = DefaultMealName(0)
    /\ data.meals[2].name = DefaultMealName(1)
    /\ data.meals[2].id # <<>>
    /\ data.meals[2].calories = 120
    /\ data.meals[2].protein = 0

(***************************************************************************)
(* Properties of the screen (SpecApp).                                     *)
(***************************************************************************)
\* how many of the calls are awaiting analyzeFood
Pending(calls) == Cardinality({ i \in 1..Len(calls) : calls[i].phase = "analyzeFood" })

\* C25: at most one analysis is in flight: while one is pending the control
\* that starts an analysis is disabled, so a second cannot start before the
\* first has returned.
AtMostOneAnalysis == Pending(analyses) <= 1

\* the step is the return of analyzeFood to analyzeFoodImage
AnalysisReturns == Pending(analyses') < Pending(analyses)

\* the step starts exactly one addMeal, of the returned food on top of the
\* entry of the render some pending analysis was started in
OneMealAppended ==
    /\ Len(saves') = Len(saves) + 1
    /\ \A j \in 1..Len(saves) : saves'[j] = saves[j]
    /\ StartedCall.op = "addMeal"
    /\ StartedCall.result.name = outcome'.data.name
    /\ \E i \in 1..Len(analyses) :
          /\ analyses[i].phase = "analyzeFood"
          /\ StartedCall.newData.meals = Append(analyses[i].snap.meals, StartedCall.result)

\* C27: when analyzeFood returns food, analyzeFoodImage adds exactly one meal
\* to the ledger; when it returns not_food or error it starts no write; the
\* analysis itself, from its start to its return, writes nothing to storage
\* and starts no save.
OneMealPerFoodOutcome ==
    [][/\ AnalysisReturns =>
            /\ storage' = storage
            /\ IF outcome'.type = "food" THEN OneMealAppended ELSE saves' = saves
       /\ Len(analyses') > Len(analyses) => (saves' = saves /\ storage' = storage)]_vars

\* C27 witness: a food analysis has put the one meal Apple into the entry of
\* the day, persisted, with one identifier generated in all
AppleLoggedOnceReached ==
    /\ outcome.type = "food"
    /\ analyses = <<>>
    /\ origin.op = "addMeal"
    /\ Len(data.meals) = 1
    /\ data.meals[1].name = <<"Apple">>
    /\ data.meals[1].calories = 950
    /\ storage[FirstDay] = StoredText(Stringify(data))
    /\ nextId = 2

\* C28: a meal that is persisted under a day stays persisted under that day
\* until deleteMeal has been called with its id, whatever the order in which
\* a pending analysis, manual entries, edits and deletions complete.
NoLostMeal ==
    [][\A k \in Days : \A id \in MealIdsAt(k) :
          id \in MealIdsAt(k)' \/ id \in deleteIssued']_vars
====
